---- MODULE Spec2Model ----
(***************************************************************************)
(* Model of the plugin orchestration runtime of @okrapdf/vdom-plugins      *)
(* (src/src/runtime.ts, class VdomPluginManager).                          *)
(*                                                                         *)
(* Every action is one synchronous run of manager code: a whole registry   *)
(* method, or the part of the async runEvent between two awaits.           *)
(***************************************************************************)
EXTENDS Integers, Sequences, FiniteSets, TLC

\* ------------------------------------------------------------------------
\* Bounds of the model
\* ------------------------------------------------------------------------
\* number of cleanup promises of one plugin name that may be pending
MaxPending == 1

\* number of unsubscribe closures handed out by on
MaxClosures == 2

\* the largest coordinate of the boxes given to the geometry utilities
MaxCoord == 2

\* the largest number of blocks on the page given to the table detector
MaxBlocks == 6

\* ------------------------------------------------------------------------
\* Values
\* ------------------------------------------------------------------------
\* the plugin names callers pass to the registry
Names == {"alpha", "beta"}

\* two tags of the closed VdomLifecycleEvent enum
Events == {"ready", "interactive"}

\* the configuration object {} (a record with no keys)
EmptyConfig == [k \in {} |-> 0]

\* the partial configurations callers pass to setConfig
Partials == { ("a" :> 1), ("b" :> 2) }

\* The manifests callers register.  id identifies the manifest object;
\* cleanup is "none" (no cleanup declared), "sync" (returns void) or
\* "async" (returns a Promise); hasSchema tells whether configSchema is
\* declared and schemaDefaults gives field.default for each of its fields.
Manifests ==
  { [id |-> 1, name |-> "alpha", runsOn |-> {"ready"},
     dependencies |-> <<>>, defaultEnabled |-> TRUE,
     hasSchema |-> TRUE, schemaDefaults |-> ("a" :> 0),
     cleanup |-> "sync"],
    [id |-> 2, name |-> "alpha", runsOn |-> {"ready", "interactive"},
     dependencies |-> <<"beta">>, defaultEnabled |-> FALSE,
     hasSchema |-> FALSE, schemaDefaults |-> EmptyConfig,
     cleanup |-> "none"],
    [id |-> 3, name |-> "beta", runsOn |-> {"ready"},
     dependencies |-> <<>>, defaultEnabled |-> FALSE,
     hasSchema |-> TRUE, schemaDefaults |-> ("a" :> 1 @@ "b" :> 0),
     cleanup |-> "async"],
    [id |-> 4, name |-> "beta", runsOn |-> {"interactive"},
     dependencies |-> <<"alpha">>, defaultEnabled |-> TRUE,
     hasSchema |-> FALSE, schemaDefaults |-> EmptyConfig,
     cleanup |-> "sync"] }

\* The names and manifests used where the order of dispatch is studied: no
\* schema, no cleanup, enabled by default, and dependency lists that form
\* chains (beta -> alpha -> gamma), a diamond (gamma -> alpha, beta and
\* beta -> alpha), cycles (alpha -> gamma -> alpha) and dangling names.
DepNames == {"alpha", "beta", "gamma"}

DepManifest(id, name, runsOn, dependencies) ==
  [id |-> id, name |-> name, runsOn |-> runsOn,
   dependencies |-> dependencies, defaultEnabled |-> TRUE,
   hasSchema |-> FALSE, schemaDefaults |-> EmptyConfig, cleanup |-> "none"]

DepManifests ==
  { DepManifest(11, "alpha", {"ready"}, <<>>),
    DepManifest(12, "alpha", {"ready", "interactive"}, <<"gamma">>),
    DepManifest(13, "beta", {"ready", "interactive"}, <<"alpha">>),
    DepManifest(14, "beta", {"ready"}, <<>>),
    DepManifest(15, "gamma", {"ready", "interactive"}, <<>>),
    DepManifest(16, "gamma", {"ready"}, <<"alpha", "beta">>) }

\* the manifest object with a given id
Manifest(id) == CHOOSE m \in Manifests : m.id = id

\* what a call of a plugin's cleanup does: return (void or a Promise) or throw
CleanupOutcomes == {"return", "throw"}

\* how an awaited handler settles: with a PluginResult or with Error('X')
HandlerOutcomes == {"ok", "throw"}

\* the runEvent coroutines that may be in flight
CallIds == {"c1"}

\* the event bus: the event names, the ones listeners subscribe to here, and
\* two listener functions, of which h2 throws whenever it is called
PluginManagerEvents ==
  {"plugin:registered", "plugin:unregistered", "plugin:enabled",
   "plugin:disabled", "plugin:configChanged", "plugin:started",
   "plugin:completed", "plugin:error", "lifecycle:emit", "command:started",
   "command:completed", "command:error"}

Watched == {"plugin:registered", "plugin:enabled"}

Handlers == {"h1", "h2"}

Throwing == {"h2"}

NoListeners == [e \in PluginManagerEvents |-> <<>>]

\* Commands (types.ts 229-272): the enabled and visible flags are absent, a
\* static boolean, or a predicate over the entity; isTable and onPage1 are
\* the two predicates of the command tests; a flag is one of "absent",
\* "true", "false", "isTable", "onPage1"

Command(id, contexts, enabled, visible) ==
  [id |-> id, contexts |-> contexts, enabled |-> enabled,
   visible |-> visible]

\* the entities commands are looked up and executed for
Entities ==
  { [id |-> "n1", type |-> "table", pageNumber |-> 1],
    [id |-> "n2", type |-> "table", pageNumber |-> 2],
    [id |-> "n3", type |-> "figure", pageNumber |-> 1],
    [id |-> "n4", type |-> "ocr", pageNumber |-> 2] }

\* manifests that declare commands, and one (id 23) that declares none
CmdManifests ==
  { DepManifest(21, "alpha", {}, <<>>) @@
      ("commands" :>
         << Command("open", {"all"}, "absent", "absent"),
            Command("export", {"table"}, "true", "onPage1"),
            Command("caption", {"figure", "table"}, "isTable", "absent"),
            Command("off", {"all"}, "false", "absent"),
            Command("hidden", {"all"}, "absent", "false"),
            Command("block", {"ocr-block", "selection"}, "absent",
                    "absent") >>),
    [DepManifest(22, "beta", {}, <<>>) EXCEPT !.defaultEnabled = FALSE] @@
      ("commands" :>
         << Command("open", {"figure"}, "absent", "absent"),
            Command("page", {"all"}, "onPage1", "true") >>),
    DepManifest(23, "alpha", {}, <<>>) }

\* the command ids executeCommand is called with: owned by both plugins,
\* by alpha only, by nobody
CommandIds == {"open", "export", "nope"}

Executors == {"x1"}

\* the locals of executeCommand; invoked and emitted record the handler
\* invocations and the events it published
IdleExecution ==
  [status |-> "idle", pluginName |-> "-", commandId |-> "-",
   entity |-> "-", result |-> [success |-> FALSE, error |-> "-"],
   invoked |-> <<>>, settled |-> <<>>, emitted |-> <<>>]

\* two callers of runEvent at once: the handlers invoked for Hung never
\* settle, those invoked for Other settle
Hung == "c1"
Other == "c2"
Callers == {Hung, Other}

\* ------------------------------------------------------------------------
\* Numbers
\* A JavaScript number is modelled as an exact rational <<n, d>> in lowest
\* terms with d > 0; the coordinates of a box are integers.  The rounding
\* of IEEE doubles is not modelled.
\* ------------------------------------------------------------------------
RECURSIVE gcd(_, _)
gcd(a, b) == IF b = 0 THEN a ELSE gcd(b, a % b)

abs(n) == IF n < 0 THEN -n ELSE n

max(x, y) == IF x >= y THEN x ELSE y

min(x, y) == IF x <= y THEN x ELSE y

\* the number n / d, d # 0
Frac(n, d) ==
  LET g == gcd(abs(n), abs(d))
      s == IF d < 0 THEN -1 ELSE 1
  IN <<(s * n) \div g, (s * d) \div g>>

Num(n) == <<n, 1>>

QAdd(p, q) == Frac(p[1] * q[2] + q[1] * p[2], p[2] * q[2])

QSub(p, q) == Frac(p[1] * q[2] - q[1] * p[2], p[2] * q[2])

QMul(p, q) == Frac(p[1] * q[1], p[2] * q[2])

\* p / q, q # 0
QDiv(p, q) == Frac(p[1] * q[2], p[2] * q[1])

QAbs(p) == <<abs(p[1]), p[2]>>

QLe(p, q) == p[1] * q[2] <= q[1] * p[2]

QLt(p, q) == p[1] * q[2] < q[1] * p[2]

\* BBox (types.ts): every box with integer coordinates up to MaxCoord,
\* the degenerate (x1 = x2) and the inverted (x1 > x2) ones included
Boxes == [x1 : 0..MaxCoord, y1 : 0..MaxCoord, x2 : 0..MaxCoord, y2 : 0..MaxCoord]

\* the thresholds bboxContains is called with: 0, 1/4, 1/2, 1
Thresholds == {<<0, 1>>, <<1, 4>>, <<1, 2>>, <<1, 1>>}

\* The pages given to the table detector.  A block sits at one of twelve
\* positions, listed in reading order by the centre <<x, y>> of the block
\* on the 0-1000 scale: the 3 x 2 grid of x 20, 80 and y 10, 50, 90; a
\* fourth row at y 130; blocks close to a row or a column of the grid
\* (34, 20 and 34, 50); and blocks off the columns (50, 90 and 110, 130).
Centres ==
  << <<20, 10>>, <<80, 10>>, <<34, 20>>,
     <<20, 50>>, <<34, 50>>, <<80, 50>>,
     <<20, 90>>, <<50, 90>>, <<80, 90>>,
     <<20, 130>>, <<80, 130>>, <<110, 130>> >>

Positions == 1..Len(Centres)

xOf(k) == Centres[k][1]

yOf(k) == Centres[k][2]

BlockIds ==
  <<"b1", "b2", "b3", "b4", "b5", "b6", "b7", "b8", "b9", "b10", "b11",
    "b12">>

\* how wide and high the blocks of a page are: all alike, differing from
\* column to column and from row to row, or all without height
Shapes == {"uniform", "ragged", "flat"}

widthOf(shape, k) ==
  IF shape = "ragged"
  THEN CASE xOf(k) = 20 -> 10 [] xOf(k) = 34 -> 4 [] xOf(k) = 80 -> 30
         [] xOf(k) = 110 -> 6 [] OTHER -> 10
  ELSE 10

heightOf(shape, k) ==
  CASE shape = "uniform" -> 6
    [] shape = "flat" -> 0
    [] OTHER -> CASE yOf(k) = 50 -> 20 [] yOf(k) = 20 -> 6
                  [] yOf(k) = 130 -> 6 [] OTHER -> 2

\* the OCR block (VdomNode) at position k
Block(shape, k) ==
  [id |-> BlockIds[k],
   bbox |-> [x1 |-> xOf(k) - widthOf(shape, k) \div 2,
             y1 |-> yOf(k) - heightOf(shape, k) \div 2,
             x2 |-> xOf(k) + widthOf(shape, k) \div 2,
             y2 |-> yOf(k) + heightOf(shape, k) \div 2]]

\* the blocks at the positions of S in document order: reading order
\* ("down") or its reverse ("up")
PageBlocks(shape, S, order) ==
  LET n == Cardinality(S)
      nth(i) == CHOOSE k \in S : Cardinality({ j \in S : j <= k }) = i
  IN [i \in 1..n |->
        Block(shape, nth(IF order = "down" THEN i ELSE n + 1 - i))]

Orders == {"down", "up"}

\* CoordTableDetectorConfig, the fields that detection reads: the defaults
\* of the schema, and the defaults with a threshold of 0.9, with minRows 3,
\* with minColumns 3, with both tolerances 5, and with a column tolerance
\* of 30
DetectorConfig(rowTolerance, columnTolerance, minRows, minColumns, confidenceThreshold) ==
  [rowTolerance |-> Num(rowTolerance),
   columnTolerance |-> Num(columnTolerance),
   minRows |-> minRows,
   minColumns |-> minColumns,
   confidenceThreshold |-> confidenceThreshold]

Configs ==
  { DetectorConfig(15, 20, 2, 2, Frac(7, 10)),
    DetectorConfig(15, 20, 2, 2, Frac(9, 10)),
    DetectorConfig(15, 20, 3, 2, Frac(7, 10)),
    DetectorConfig(15, 20, 2, 3, Frac(7, 10)),
    DetectorConfig(5, 5, 2, 2, Frac(7, 10)),
    DetectorConfig(15, 30, 2, 2, Frac(7, 10)) }

\* no detector run and no geometry call: the state of the two components
\* in the specifications of the manager
NoDetection == [stage |-> "none"]

NoOverlap == [stage |-> "none"]

NoTransform == [stage |-> "none"]

\* The calls of the commands of the qwen-markdown plugin: the type of the
\* entity, the imageUrl of the context (absent, empty or a URL) and the
\* plugin's configuration
EntityTypes == {"table", "figure", "ocr-block", "text"}

ImageUrls == {"undefined", "", "https://example.com/image.png"}

QwenConfigs ==
  [model : {"qwen/qwen3-vl-235b-a22b-instruct", "google/gemini-2.0-flash-001"},
   promptStyle : {"table", "page", "json"},
   apiEndpoint : {"/api/transform/entity-to-markdown"}]

\* what the fetch of callTransformApi can do: reject with an Error or with
\* another value, answer with a status that is not OK (its text readable or
\* not), answer OK with a body that is not JSON, with null, with
\* success: false (with and without an error text) or with success: true
ApiOutcomes ==
  { [kind |-> "reject", isError |-> TRUE, message |-> "Failed to fetch"],
    [kind |-> "reject", isError |-> FALSE, message |-> "-"],
    [kind |-> "status", status |-> 500, text |-> "Internal Server Error"],
    [kind |-> "status", status |-> 502, text |-> "throws"],
    [kind |-> "ok", json |-> "throws"],
    [kind |-> "ok", json |-> "null"],
    [kind |-> "ok", json |-> "data", success |-> FALSE, error |-> "Rate limited"],
    [kind |-> "ok", json |-> "data", success |-> FALSE, error |-> ""],
    [kind |-> "ok", json |-> "data", success |-> TRUE, error |-> ""] }

\* ------------------------------------------------------------------------
\* State
\* ------------------------------------------------------------------------
VARIABLES
  plugins,         \* Map<string, VdomPlugin>: manifests in insertion order
  enabledPlugins,  \* Set<string>
  pluginConfigs,   \* Map<string, Record<string, unknown>>
  cleanupPending,  \* per name, cleanup promises returned and not yet settled
  calls,           \* the runEvent coroutines
  last,            \* the latest manager call: what was called and what it did
  listeners,       \* Map<PluginManagerEvent, Set<HandlerFn>>, insertion order
  closures,        \* the unsubscribe closures that on has returned so far
  executions,      \* the executeCommand coroutines
  detection,       \* a run of the table detector on the blocks of one page
  overlap,         \* a call of the geometry utilities on two boxes
  transform        \* a call of a command of the qwen-markdown plugin

vars ==
  <<plugins, enabledPlugins, pluginConfigs, cleanupPending, calls, last,
    listeners, closures, executions, detection, overlap, transform>>

\* ------------------------------------------------------------------------
\* Helpers
\* ------------------------------------------------------------------------
\* this.plugins.keys(), as a set
Registered == { plugins[i].name : i \in 1..Len(plugins) }

\* this.plugins.has(name)
has(name) == name \in Registered

\* getPlugin(name); only used where has(name)
getPlugin(name) ==
  plugins[CHOOSE i \in 1..Len(plugins) : plugins[i].name = name]

\* getConfig(name)
getConfig(name) ==
  IF name \in DOMAIN pluginConfigs THEN pluginConfigs[name] ELSE EmptyConfig

\* Map.prototype.delete on the plugin map
RECURSIVE DeleteName(_, _)
DeleteName(seq, name) ==
  IF seq = <<>> THEN <<>>
  ELSE IF Head(seq).name = name THEN DeleteName(Tail(seq), name)
  ELSE <<Head(seq)>> \o DeleteName(Tail(seq), name)

\* Map.prototype.delete on the config map
DeleteKey(f, name) == [k \in (DOMAIN f) \ {name} |-> f[k]]

\* Map.prototype.set on the config map
SetKey(f, name, v) ==
  [k \in (DOMAIN f) \cup {name} |-> IF k = name THEN v ELSE f[k]]

\* { ...existing, ...config }
Spread(existing, config) ==
  [k \in (DOMAIN existing) \cup (DOMAIN config) |->
     IF k \in DOMAIN config THEN config[k] ELSE existing[k]]

\* what one synchronous manager call did: the three maps and the pending
\* cleanup promises when it ended, whether it threw, the events it published
\* in order, and the cleanups it invoked in order
Outcome(p, e, c, pend, threw, evs, cl) ==
  [plugins |-> p, enabledPlugins |-> e, pluginConfigs |-> c,
   cleanupPending |-> pend, threw |-> threw, emitted |-> evs,
   cleanups |-> cl]

\* a call that threw before it changed or published anything
Thrown(cl) ==
  Outcome(plugins, enabledPlugins, pluginConfigs, cleanupPending, TRUE,
          <<>>, cl)

\* ------------------------------------------------------------------------
\* emit(event, data)                                  runtime.ts 197-208
\* ------------------------------------------------------------------------
\* the listener calls emit makes for one event, and whether it throws; every
\* published event reaches the bus through emit, the last statement of the
\* registry method that publishes it

\* an emit without the try/catch: the first listener that throws ends it
emit_unguarded(event) ==
  LET handlers == listeners[event.type]
      bad == { i \in 1..Len(handlers) : handlers[i] \in Throwing }
      n == IF bad = {} THEN Len(handlers)
           ELSE CHOOSE i \in bad : \A j \in bad : i <= j
  IN [calls |-> [i \in 1..n |->
                   [handler |-> handlers[i], data |-> event,
                    threw |-> handlers[i] \in Throwing]],
      threw |-> bad # {}]

emit(event) ==
  LET handlers == listeners[event.type]
  IN [calls |-> [i \in 1..Len(handlers) |->
                   [handler |-> handlers[i], data |-> event,
                    threw |-> handlers[i] \in Throwing]],
      threw |-> FALSE]

\* the events a method publishes, one emit after the other
RECURSIVE emitAll(_, _)
emitAll(events, i) ==
  IF i > Len(events) THEN [calls |-> <<>>, threw |-> FALSE]
  ELSE LET first == emit(events[i])
           rest == emitAll(events, i + 1)
       IN IF first.threw THEN first
          ELSE [calls |-> first.calls \o rest.calls, threw |-> rest.threw]

\* the record kept in last: the call (method, name, manifest id, config
\* argument), what the caller and the bus saw of it, and which call came
\* before it
Call(op, name, id, arg, out) ==
  [op |-> op, name |-> name, id |-> id, arg |-> arg,
   threw |-> out.threw \/ emitAll(out.emitted, 1).threw,
   emitted |-> out.emitted, cleanups |-> out.cleanups,
   delivered |-> emitAll(out.emitted, 1).calls,
   prev |-> [op |-> last.op, name |-> last.name, threw |-> last.threw]]

NoCall ==
  [op |-> "none", name |-> "-", id |-> 0, arg |-> EmptyConfig,
   threw |-> FALSE, emitted |-> <<>>, cleanups |-> <<>>,
   delivered |-> <<>>,
   prev |-> [op |-> "none", name |-> "-", threw |-> FALSE]]

\* a runEvent coroutine that is not running.  pluginsToRun, idx, results are
\* the locals of runEvent; start, turns, invoked, settled and emitted record
\* what the call saw and did: the plugin map when it started, the flags read
\* at each turn of the loop, the handler invocations, how the awaited
\* handlers settled, the events it published.
IdleCall ==
  [status |-> "idle", event |-> "ready", pluginsToRun |-> <<>>, idx |-> 0,
   results |-> EmptyConfig, start |-> <<>>, turns |-> <<>>,
   invoked |-> <<>>, settled |-> <<>>, emitted |-> <<>>]

\* ------------------------------------------------------------------------
\* Initial state: a freshly constructed manager
\* ------------------------------------------------------------------------
Init ==
  /\ plugins = <<>>
  /\ enabledPlugins = {}
  /\ pluginConfigs = EmptyConfig
  /\ cleanupPending = [n \in Names |-> 0]
  /\ calls = [c \in CallIds |-> IdleCall]
  /\ last = NoCall
  /\ listeners = NoListeners
  /\ closures = <<>>
  /\ executions = [x \in Executors |-> IdleExecution]
  /\ transform = NoTransform
  /\ detection = NoDetection
  /\ overlap = NoOverlap

\* ------------------------------------------------------------------------
\* register(plugin)                                    runtime.ts 31-51
\* ------------------------------------------------------------------------
\* register without the duplicate check: Map.set replaces the stored manifest
register_overwrite(plugin) ==
  Outcome(IF has(plugin.name)
          THEN [i \in 1..Len(plugins) |->
                  IF plugins[i].name = plugin.name THEN plugin ELSE plugins[i]]
          ELSE Append(plugins, plugin),
          IF plugin.defaultEnabled
          THEN enabledPlugins \cup {plugin.name}
          ELSE enabledPlugins,
          IF plugin.hasSchema
          THEN SetKey(pluginConfigs, plugin.name, plugin.schemaDefaults)
          ELSE pluginConfigs,
          cleanupPending, FALSE,
          <<[type |-> "plugin:registered", name |-> plugin.name]>>, <<>>)

\* register that forgets to seed the configuration from configSchema
register_noSeed(plugin) ==
  IF has(plugin.name) THEN Thrown(<<>>)
  ELSE Outcome(Append(plugins, plugin),
               IF plugin.defaultEnabled
               THEN enabledPlugins \cup {plugin.name}
               ELSE enabledPlugins,
               pluginConfigs, cleanupPending, FALSE,
               <<[type |-> "plugin:registered", name |-> plugin.name]>>,
               <<>>)

register(plugin) ==
  IF has(plugin.name) THEN Thrown(<<>>)
  ELSE Outcome(Append(plugins, plugin),
               IF plugin.defaultEnabled
               THEN enabledPlugins \cup {plugin.name}
               ELSE enabledPlugins,
               IF plugin.hasSchema
               THEN SetKey(pluginConfigs, plugin.name, plugin.schemaDefaults)
               ELSE pluginConfigs,
               cleanupPending, FALSE,
               <<[type |-> "plugin:registered", name |-> plugin.name]>>,
               <<>>)

\* ------------------------------------------------------------------------
\* unregister(name)                                    runtime.ts 53-64
\* co is what the plugin's cleanup does when it is called: "return" (void,
\* or a Promise when the cleanup is async) or "throw"
\* ------------------------------------------------------------------------
\* unregister that rejects unknown names the way enable does
unregister_strict(name, co) ==
  IF ~has(name) THEN Thrown(<<>>)
  ELSE IF getPlugin(name).cleanup # "none" /\ co = "throw"
  THEN Thrown(<<[name |-> name, kind |-> getPlugin(name).cleanup,
                 visible |-> TRUE, threw |-> TRUE]>>)
  ELSE Outcome(DeleteName(plugins, name), enabledPlugins \ {name},
               DeleteKey(pluginConfigs, name),
               IF getPlugin(name).cleanup = "async"
               THEN [cleanupPending EXCEPT ![name] = @ + 1]
               ELSE cleanupPending,
               FALSE, <<[type |-> "plugin:unregistered", name |-> name]>>,
               IF getPlugin(name).cleanup = "none" THEN <<>>
               ELSE <<[name |-> name, kind |-> getPlugin(name).cleanup,
                       visible |-> TRUE, threw |-> FALSE]>>)

\* unregister that leaves the name in the enabled set
unregister_keepEnabled(name, co) ==
  LET declared == has(name) /\ getPlugin(name).cleanup # "none"
      kind == IF declared THEN getPlugin(name).cleanup ELSE "none"
      cl == IF declared
            THEN <<[name |-> name, kind |-> kind, visible |-> has(name),
                    threw |-> co = "throw"]>>
            ELSE <<>>
  IN IF declared /\ co = "throw" THEN Thrown(cl)
     ELSE Outcome(DeleteName(plugins, name),
                  enabledPlugins,
                  DeleteKey(pluginConfigs, name),
                  IF kind = "async"
                  THEN [cleanupPending EXCEPT ![name] = @ + 1]
                  ELSE cleanupPending,
                  FALSE,
                  <<[type |-> "plugin:unregistered", name |-> name]>>,
                  cl)

\* unregister that leaves the plugin's entry in the configuration map
unregister_keepConfig(name, co) ==
  LET declared == has(name) /\ getPlugin(name).cleanup # "none"
      kind == IF declared THEN getPlugin(name).cleanup ELSE "none"
      cl == IF declared
            THEN <<[name |-> name, kind |-> kind, visible |-> has(name),
                    threw |-> co = "throw"]>>
            ELSE <<>>
  IN IF declared /\ co = "throw" THEN Thrown(cl)
     ELSE Outcome(DeleteName(plugins, name),
                  enabledPlugins \ {name},
                  pluginConfigs,
                  IF kind = "async"
                  THEN [cleanupPending EXCEPT ![name] = @ + 1]
                  ELSE cleanupPending,
                  FALSE,
                  <<[type |-> "plugin:unregistered", name |-> name]>>,
                  cl)

unregister(name, co) ==
  LET declared == has(name) /\ getPlugin(name).cleanup # "none"
      kind == IF declared THEN getPlugin(name).cleanup ELSE "none"
      cl == IF declared
            THEN <<[name |-> name, kind |-> kind, visible |-> has(name),
                    threw |-> co = "throw"]>>
            ELSE <<>>
  IN IF declared /\ co = "throw" THEN Thrown(cl)
     ELSE Outcome(DeleteName(plugins, name),
                  enabledPlugins \ {name},
                  DeleteKey(pluginConfigs, name),
                  IF kind = "async"
                  THEN [cleanupPending EXCEPT ![name] = @ + 1]
                  ELSE cleanupPending,
                  FALSE,
                  <<[type |-> "plugin:unregistered", name |-> name]>>,
                  cl)

\* ------------------------------------------------------------------------
\* enable(name)                                        runtime.ts 66-72
\* ------------------------------------------------------------------------
\* enable that toggles the flag instead of setting it
enable_toggle(name) ==
  IF ~has(name) THEN Thrown(<<>>)
  ELSE Outcome(plugins,
               IF name \in enabledPlugins
               THEN enabledPlugins \ {name}
               ELSE enabledPlugins \cup {name},
               pluginConfigs, cleanupPending, FALSE,
               <<[type |-> "plugin:enabled", name |-> name]>>, <<>>)

enable(name) ==
  IF ~has(name) THEN Thrown(<<>>)
  ELSE Outcome(plugins, enabledPlugins \cup {name}, pluginConfigs,
               cleanupPending, FALSE,
               <<[type |-> "plugin:enabled", name |-> name]>>, <<>>)

\* ------------------------------------------------------------------------
\* disable(name)                                       runtime.ts 74-77
\* ------------------------------------------------------------------------
disable(name) ==
  Outcome(plugins, enabledPlugins \ {name}, pluginConfigs, cleanupPending,
          FALSE, <<[type |-> "plugin:disabled", name |-> name]>>, <<>>)

\* ------------------------------------------------------------------------
\* setConfig(name, config)                             runtime.ts 83-90
\* ------------------------------------------------------------------------
\* setConfig without the registration check
setConfig_unchecked(name, config) ==
  LET stored == SetKey(pluginConfigs, name, Spread(getConfig(name), config))
  IN Outcome(plugins, enabledPlugins, stored, cleanupPending, FALSE,
             <<[type |-> "plugin:configChanged", name |-> name,
                config |-> stored[name]]>>, <<>>)

\* setConfig that replaces the stored configuration by the partial one
setConfig_replace(name, config) ==
  IF ~has(name) THEN Thrown(<<>>)
  ELSE LET stored == SetKey(pluginConfigs, name, config)
       IN Outcome(plugins, enabledPlugins, stored, cleanupPending, FALSE,
                  <<[type |-> "plugin:configChanged", name |-> name,
                     config |-> stored[name]]>>, <<>>)

setConfig(name, config) ==
  IF ~has(name) THEN Thrown(<<>>)
  ELSE LET existing == getConfig(name)
           stored == SetKey(pluginConfigs, name, Spread(existing, config))
       IN Outcome(plugins, enabledPlugins, stored, cleanupPending, FALSE,
                  <<[type |-> "plugin:configChanged", name |-> name,
                     config |-> stored[name]]>>, <<>>)

\* ------------------------------------------------------------------------
\* clear()                                             runtime.ts 210-220
\* t is the position in the plugin map of the first plugin whose cleanup
\* throws when called, 0 when no cleanup throws
\* (line 219 also empties the listener map, which is not part of this state:
\* the bus is represented by the events published)
\* ------------------------------------------------------------------------
clear(t) ==
  LET stop == IF t = 0 THEN Len(plugins) ELSE t
      called == { i \in 1..stop : plugins[i].cleanup # "none" }
      returned == IF t = 0 THEN called ELSE called \ {t}
      pend == [nm \in Names |->
                 cleanupPending[nm] +
                 Cardinality({ i \in returned :
                                 /\ plugins[i].name = nm
                                 /\ plugins[i].cleanup = "async" })]
      cl == [k \in 1..Cardinality(called) |->
               LET i == CHOOSE j \in called :
                          Cardinality({ m \in called : m <= j }) = k
               IN [name |-> plugins[i].name, kind |-> plugins[i].cleanup,
                   visible |-> has(plugins[i].name), threw |-> i = t]]
  IN IF t # 0
     THEN Outcome(plugins, enabledPlugins, pluginConfigs, pend, TRUE,
                  <<>>, cl)
     ELSE Outcome(<<>>, {}, EmptyConfig, pend, FALSE, <<>>, cl)
            @@ ("listeners" :> NoListeners)

\* ------------------------------------------------------------------------
\* The registry calls as actions.  Observed keeps the call in last; During
\* is the same call made by another caller while runEvent calls are watched,
\* and leaves last alone.
\* ------------------------------------------------------------------------
Apply(out) ==
  /\ \A n \in Names : out.cleanupPending[n] <= MaxPending
  /\ plugins' = out.plugins
  /\ enabledPlugins' = out.enabledPlugins
  /\ pluginConfigs' = out.pluginConfigs
  /\ cleanupPending' = out.cleanupPending
  /\ listeners' = IF "listeners" \in DOMAIN out THEN out.listeners
                  ELSE listeners
  /\ UNCHANGED <<calls, closures, executions, detection, overlap, transform>>

Observed(op, name, id, arg, out) ==
  /\ Apply(out)
  /\ last' = Call(op, name, id, arg, out)

During(out) ==
  /\ Apply(out)
  /\ UNCHANGED last

\* the positions t that clear(t) may be called with: 0, or a plugin that
\* declares a cleanup
Throwers == {0} \cup { i \in 1..Len(plugins) : plugins[i].cleanup # "none" }

\* a cleanup promise settles (fulfilled or rejected: nobody awaits it)
settle(name) ==
  Outcome(plugins, enabledPlugins, pluginConfigs,
          [cleanupPending EXCEPT ![name] = @ - 1], FALSE, <<>>, <<>>)

Register ==
  \E plugin \in Manifests :
    Observed("register", plugin.name, plugin.id, EmptyConfig, register(plugin))

Unregister ==
  \E name \in Names, co \in CleanupOutcomes :
    Observed("unregister", name, 0, EmptyConfig, unregister(name, co))

Enable ==
  \E name \in Names : Observed("enable", name, 0, EmptyConfig, enable(name))

Disable ==
  \E name \in Names : Observed("disable", name, 0, EmptyConfig, disable(name))

SetConfig ==
  \E name \in Names, config \in Partials :
    Observed("setConfig", name, 0, config, setConfig(name, config))

Clear ==
  \E t \in Throwers : Observed("clear", "-", 0, EmptyConfig, clear(t))

CleanupSettle ==
  \E name \in Names :
    /\ cleanupPending[name] > 0
    /\ Observed("cleanupSettled", name, 0, EmptyConfig, settle(name))

DuringRegister == \E plugin \in Manifests : During(register(plugin))

DuringUnregister ==
  \E name \in Names, co \in CleanupOutcomes : During(unregister(name, co))

DuringEnable == \E name \in Names : During(enable(name))

DuringDisable == \E name \in Names : During(disable(name))

DuringSetConfig ==
  \E name \in Names, config \in Partials : During(setConfig(name, config))

DuringClear == \E t \in Throwers : During(clear(t))

DuringCleanupSettle ==
  \E name \in Names : cleanupPending[name] > 0 /\ During(settle(name))

\* ------------------------------------------------------------------------
\* on(event, handler) and the closure it returns      runtime.ts 183-195
\* ------------------------------------------------------------------------
\* Set.add: a handler already in the event's set is not added again
on(event, handler) ==
  [listeners EXCEPT ![event] =
     IF \E i \in 1..Len(@) : @[i] = handler THEN @ ELSE Append(@, handler)]

\* a closure that drops the whole listener set of its event
unsubscribe_all(event, handler) == [listeners EXCEPT ![event] = <<>>]

\* the closure: Set.delete of the handler in the event's set
unsubscribe(event, handler) ==
  [listeners EXCEPT ![event] = SelectSeq(@, LAMBDA h : h # handler)]

\* the record kept in last for a call of on, of a closure, or of emit
BusCall(op, event, handler, closure, em, events) ==
  [op |-> op, name |-> "-", id |-> 0, arg |-> EmptyConfig,
   threw |-> em.threw, emitted |-> events, cleanups |-> <<>>,
   delivered |-> em.calls,
   prev |-> [op |-> last.op, name |-> last.name, threw |-> last.threw],
   event |-> event, handler |-> handler, closure |-> closure]

NoEmit == [calls |-> <<>>, threw |-> FALSE]

\* on hands out a new closure; closures of the same event and handler that
\* were called before are stale from now on
On ==
  \E event \in Watched, handler \in Handlers :
    /\ Len(closures) < MaxClosures
    /\ listeners' = on(event, handler)
    /\ closures' =
         Append([i \in 1..Len(closures) |->
                   IF /\ closures[i].event = event
                      /\ closures[i].handler = handler
                      /\ closures[i].called
                   THEN [closures[i] EXCEPT !.stale = TRUE]
                   ELSE closures[i]],
                [event |-> event, handler |-> handler, called |-> FALSE,
                 stale |-> FALSE])
    /\ last' = BusCall("on", event, handler,
                       [called |-> FALSE, stale |-> FALSE], NoEmit, <<>>)
    /\ UNCHANGED <<plugins, enabledPlugins, pluginConfigs, cleanupPending,
                   calls, executions,
                   detection, overlap, transform>>

\* one of the closures handed out so far is called
Off ==
  \E i \in 1..Len(closures) :
    /\ listeners' = unsubscribe(closures[i].event, closures[i].handler)
    /\ closures' = [closures EXCEPT ![i].called = TRUE]
    /\ last' = BusCall("off", closures[i].event, closures[i].handler,
                       [called |-> closures[i].called,
                        stale |-> closures[i].stale], NoEmit, <<>>)
    /\ UNCHANGED <<plugins, enabledPlugins, pluginConfigs, cleanupPending,
                   calls, executions,
                   detection, overlap, transform>>

\* emit called directly
Emit ==
  \E type \in Watched :
    LET event == [type |-> type, name |-> "alpha"]
    IN /\ last' = BusCall("emit", type, "-",
                          [called |-> FALSE, stale |-> FALSE], emit(event),
                          <<event>>)
       /\ UNCHANGED <<plugins, enabledPlugins, pluginConfigs, cleanupPending,
                      calls, listeners, closures, executions,
                      detection, overlap, transform>>

\* the registry calls of other callers where the order of dispatch is studied
OrderRegister == \E plugin \in DepManifests : During(register(plugin))

\* (these manifests have no cleanup, so its outcome is never consulted)
OrderUnregister == \E name \in DepNames : During(unregister(name, "return"))

\* ------------------------------------------------------------------------
\* getPluginsForEvent(event)                           runtime.ts 154-181
\* st is the pair of locals (plugins, resolved); stack holds the names whose
\* resolve() is on the call stack.  resolved.add(name) comes after the visit
\* of the dependencies, so a name met again while it is on the stack is
\* resolved again without end: the recursion exhausts the stack (overflow).
\* ------------------------------------------------------------------------
RECURSIVE resolve(_, _, _, _), resolveAll(_, _, _, _, _)
\* a resolve that appends the plugin before it visits its dependencies
resolve_pushFirst(name, event, st, stack) ==
  IF st.overflow \/ name \in st.resolved \/ ~has(name) THEN st
  ELSE IF name \in stack THEN [st EXCEPT !.overflow = TRUE]
  ELSE LET plugin == getPlugin(name)
           st0 == [st EXCEPT !.plugins =
                     IF event \in plugin.runsOn THEN Append(@, plugin) ELSE @]
           st1 == resolveAll(plugin.dependencies, 1, event, st0,
                             stack \cup {name})
       IN IF st1.overflow THEN st1
          ELSE [st1 EXCEPT !.resolved = @ \cup {name}]

\* a resolve that never records a name as resolved
resolve_unmarked(name, event, st, stack) ==
  IF st.overflow \/ name \in st.resolved \/ ~has(name) THEN st
  ELSE IF name \in stack THEN [st EXCEPT !.overflow = TRUE]
  ELSE LET plugin == getPlugin(name)
           st1 == resolveAll(plugin.dependencies, 1, event, st,
                             stack \cup {name})
       IN IF st1.overflow THEN st1
          ELSE [st1 EXCEPT !.plugins =
                  IF event \in plugin.runsOn THEN Append(@, plugin) ELSE @]

resolve(name, event, st, stack) ==
  IF st.overflow \/ name \in st.resolved \/ ~has(name) THEN st
  ELSE IF name \in stack THEN [st EXCEPT !.overflow = TRUE]
  ELSE LET plugin == getPlugin(name)
           st1 == resolveAll(plugin.dependencies, 1, event, st,
                             stack \cup {name})
       IN IF st1.overflow THEN st1
          ELSE [plugins |-> IF event \in plugin.runsOn
                            THEN Append(st1.plugins, plugin)
                            ELSE st1.plugins,
                resolved |-> st1.resolved \cup {name},
                overflow |-> FALSE]

\* for (const dep of names) resolve(dep), from position i on
resolveAll(names, i, event, st, stack) ==
  IF i > Len(names) THEN st
  ELSE resolveAll(names, i + 1, event, resolve(names[i], event, st, stack),
                  stack)

\* the keys of the plugin map, in insertion order
keys == [i \in 1..Len(plugins) |-> plugins[i].name]

getPluginsForEvent(event) ==
  resolveAll(keys, 1, event,
             [plugins |-> <<>>, resolved |-> {}, overflow |-> FALSE], {})

\* ------------------------------------------------------------------------
\* runEvent(event, context)                            runtime.ts 108-152
\* ------------------------------------------------------------------------
\* a loop that forgets the enabled check
eligible_always(plugin) == TRUE

\* line 116: the plugin is run only if it is enabled at its turn
eligible(plugin) == plugin.name \in enabledPlugins

\* PluginResult of a handler that settled with outcome
resultOf(outcome) ==
  IF outcome = "ok" THEN [success |-> TRUE]
  ELSE [success |-> FALSE, error |-> "X"]

RECURSIVE dispatch(_, _)

\* a loop that calls the handlers without awaiting them
dispatch_noAwait(rec, i) ==
  IF i > Len(rec.pluginsToRun)
  THEN [rec EXCEPT !.status = IF Len(rec.invoked) > Len(rec.settled)
                              THEN "awaiting" ELSE "returned",
                   !.idx = IF Len(rec.invoked) > Len(rec.settled)
                           THEN i - 1 ELSE i]
  ELSE LET plugin == rec.pluginsToRun[i]
           rec1 == [rec EXCEPT !.turns =
                      Append(@, [name |-> plugin.name,
                                 enabled |-> plugin.name \in enabledPlugins,
                                 registered |-> has(plugin.name)])]
       IN IF ~eligible(plugin) THEN dispatch(rec1, i + 1)
          ELSE dispatch([rec1 EXCEPT
                           !.emitted = Append(@, [type |-> "plugin:started",
                                                  name |-> plugin.name,
                                                  event |-> rec.event]),
                           !.invoked = Append(@, [name |-> plugin.name,
                                                  id |-> plugin.id,
                                                  config |-> getConfig(plugin.name),
                                                  at |-> Len(rec.emitted) + 1])],
                        i + 1)

\* a loop that decides on the enabled set and passes the configuration
\* that the call found when it started (rec.enabledAtStart and
\* rec.configsAtStart, which TurnsRunEvent records)
dispatch_atStart(rec, i) ==
  IF i > Len(rec.pluginsToRun)
  THEN [rec EXCEPT !.status = "returned", !.idx = i]
  ELSE LET plugin == rec.pluginsToRun[i]
           rec1 == [rec EXCEPT !.turns =
                      Append(@, [name |-> plugin.name,
                                 enabled |-> plugin.name \in enabledPlugins,
                                 registered |-> has(plugin.name)])]
       IN IF plugin.name \notin rec.enabledAtStart THEN dispatch(rec1, i + 1)
          ELSE [rec1 EXCEPT
                  !.status = "awaiting",
                  !.idx = i,
                  !.emitted = Append(@, [type |-> "plugin:started",
                                         name |-> plugin.name,
                                         event |-> rec.event]),
                  !.invoked =
                    Append(@, [name |-> plugin.name,
                               id |-> plugin.id,
                               config |->
                                 IF plugin.name \in DOMAIN rec.configsAtStart
                                 THEN rec.configsAtStart[plugin.name]
                                 ELSE EmptyConfig,
                               at |-> Len(rec.emitted) + 1])]

\* lines 115-136: the loop from position i up to the next await, or line 151;
\* an invocation records how many events the call had published by then
dispatch(rec, i) ==
  IF i > Len(rec.pluginsToRun)
  THEN [rec EXCEPT !.status = "returned", !.idx = i]
  ELSE LET plugin == rec.pluginsToRun[i]
           rec1 == [rec EXCEPT !.turns =
                      Append(@, [name |-> plugin.name,
                                 enabled |-> plugin.name \in enabledPlugins,
                                 registered |-> has(plugin.name)])]
       IN IF ~eligible(plugin) THEN dispatch(rec1, i + 1)
          ELSE [rec1 EXCEPT
                  !.status = "awaiting",
                  !.idx = i,
                  !.emitted = Append(@, [type |-> "plugin:started",
                                         name |-> plugin.name,
                                         event |-> rec.event]),
                  !.invoked = Append(@, [name |-> plugin.name,
                                         id |-> plugin.id,
                                         config |-> getConfig(plugin.name),
                                         at |-> Len(rec.emitted) + 1])]

\* a runEvent that refuses to start while another call awaits a handler
runEvent_locked(c, event) ==
  LET r == getPluginsForEvent(event)
      rec == [IdleCall EXCEPT !.event = event, !.start = plugins,
                              !.pluginsToRun = r.plugins]
  IN /\ calls[c].status = "idle"
     /\ \A d \in DOMAIN calls : calls[d].status # "awaiting"
     /\ calls' = [calls EXCEPT ![c] =
                    IF r.overflow THEN [rec EXCEPT !.status = "rejected"]
                    ELSE dispatch(rec, 1)]
     /\ UNCHANGED <<plugins, enabledPlugins, pluginConfigs, cleanupPending,
                    last, listeners, closures, executions,
                    detection, overlap, transform>>

\* lines 112-136: the call, up to its first await
runEvent(c, event) ==
  LET r == getPluginsForEvent(event)
      rec == [IdleCall EXCEPT !.event = event, !.start = plugins,
                              !.pluginsToRun = r.plugins]
  IN /\ calls[c].status = "idle"
     /\ calls' = [calls EXCEPT ![c] =
                    IF r.overflow THEN [rec EXCEPT !.status = "rejected"]
                    ELSE dispatch(rec, 1)]
     /\ UNCHANGED <<plugins, enabledPlugins, pluginConfigs, cleanupPending,
                    last, listeners, closures, executions,
                    detection, overlap, transform>>

RunEvent == \E c \in DOMAIN calls, event \in Events : runEvent(c, event)

\* runEvent as above, the call also noting the enabled set and the
\* configurations it found when it started
TurnsRunEvent ==
  \E c \in DOMAIN calls, event \in Events :
    LET r == getPluginsForEvent(event)
        rec == [IdleCall EXCEPT !.event = event, !.start = plugins,
                                !.pluginsToRun = r.plugins]
                 @@ [enabledAtStart |-> enabledPlugins,
                     configsAtStart |-> pluginConfigs]
    IN /\ calls[c].status = "idle"
       /\ calls' = [calls EXCEPT ![c] =
                      IF r.overflow THEN [rec EXCEPT !.status = "rejected"]
                      ELSE dispatch(rec, 1)]
       /\ UNCHANGED <<plugins, enabledPlugins, pluginConfigs, cleanupPending,
                      last, listeners, closures, executions,
                      detection, overlap, transform>>

\* a resume without the try/catch around the handler: a throw ends the call
resume_abort(c, outcome) ==
  LET rec == calls[c]
      plugin == rec.pluginsToRun[rec.idx]
      result == resultOf(outcome)
      rec1 == [rec EXCEPT !.results = SetKey(@, plugin.name, result),
                          !.settled = Append(@, [name |-> plugin.name,
                                                 outcome |-> outcome]),
                          !.emitted = Append(@, [type |-> "plugin:completed",
                                                 name |-> plugin.name,
                                                 result |-> result])]
  IN /\ rec.status = "awaiting"
     /\ calls' = [calls EXCEPT ![c] =
                    IF outcome = "ok" THEN dispatch(rec1, rec.idx + 1)
                    ELSE [rec EXCEPT !.status = "rejected",
                                     !.settled =
                                       Append(@, [name |-> plugin.name,
                                                  outcome |-> outcome])]]
     /\ UNCHANGED <<plugins, enabledPlugins, pluginConfigs, cleanupPending,
                    last, listeners, closures, executions,
                    detection, overlap, transform>>

\* lines 136-149 and on: the awaited handler settles, the call resumes
resume(c, outcome) ==
  LET rec == calls[c]
      plugin == rec.pluginsToRun[rec.idx]
      result == resultOf(outcome)
      ev == IF outcome = "ok"
            THEN [type |-> "plugin:completed", name |-> plugin.name,
                  result |-> result]
            ELSE [type |-> "plugin:error", name |-> plugin.name,
                  error |-> "X"]
      rec1 == [rec EXCEPT !.results = SetKey(@, plugin.name, result),
                          !.settled = Append(@, [name |-> plugin.name,
                                                 outcome |-> outcome]),
                          !.emitted = Append(@, ev)]
  IN /\ rec.status = "awaiting"
     /\ calls' = [calls EXCEPT ![c] = dispatch(rec1, rec.idx + 1)]
     /\ UNCHANGED <<plugins, enabledPlugins, pluginConfigs, cleanupPending,
                    last, listeners, closures, executions,
                    detection, overlap, transform>>

Resume ==
  \E c \in DOMAIN calls, outcome \in HandlerOutcomes : resume(c, outcome)

\* the caller has taken the settled promise of runEvent
Taken ==
  \E c \in DOMAIN calls :
    /\ calls[c].status \in {"returned", "rejected"}
    /\ calls' = [calls EXCEPT ![c] = IdleCall]
    /\ UNCHANGED <<plugins, enabledPlugins, pluginConfigs, cleanupPending,
                   last, listeners, closures, executions,
                   detection, overlap, transform>>

\* ------------------------------------------------------------------------
\* The command router and executor.  runtime.ts does not hold
\* getCommandsForEntity and executeCommand (IPluginManager declares them,
\* types.ts 388-393); they are modelled from section 4.3 of the
\* specification and from the command tests.
\* ------------------------------------------------------------------------
\* a flag that is absent or true, or a predicate that is true of the entity
holds(flag, entity) ==
  CASE flag = "absent" -> TRUE
    [] flag = "true" -> TRUE
    [] flag = "false" -> FALSE
    [] flag = "isTable" -> entity.type = "table"
    [] flag = "onPage1" -> entity.pageNumber = 1

\* contexts contains 'all' or exactly the entity's type
matches(contexts, entity) == "all" \in contexts \/ entity.type \in contexts

\* commands is optional in the manifest
commandsOf(plugin) ==
  IF "commands" \in DOMAIN plugin THEN plugin.commands ELSE <<>>

\* the commands of one plugin offered for the entity, owner attached
offered(plugin, entity) ==
  LET pass == SelectSeq(commandsOf(plugin),
                        LAMBDA cmd : /\ matches(cmd.contexts, entity)
                                     /\ holds(cmd.enabled, entity)
                                     /\ holds(cmd.visible, entity))
  IN [i \in 1..Len(pass) |-> pass[i] @@ ("pluginName" :> plugin.name)]

RECURSIVE collect(_, _, _)
collect(entity, i, skipDisabled) ==
  IF i > Len(plugins) THEN <<>>
  ELSE (IF skipDisabled /\ plugins[i].name \notin enabledPlugins THEN <<>>
        ELSE offered(plugins[i], entity))
       \o collect(entity, i + 1, skipDisabled)

\* a lookup that does not look at the enabled set
getCommandsForEntity_anyPlugin(entity) == collect(entity, 1, FALSE)

getCommandsForEntity(entity) == collect(entity, 1, TRUE)

GetCommandsForEntity ==
  \E entity \in Entities :
    /\ last' = [op |-> "getCommandsForEntity", name |-> "-",
                threw |-> FALSE, entity |-> entity,
                ret |-> getCommandsForEntity(entity)]
    /\ UNCHANGED <<plugins, enabledPlugins, pluginConfigs, cleanupPending,
                   calls, listeners, closures, executions,
                   detection, overlap, transform>>

\* the plugin's command with the given id, as a set (empty when none)
commandWith(pluginName, commandId) ==
  IF ~has(pluginName) THEN {}
  ELSE LET cmds == commandsOf(getPlugin(pluginName))
       IN { cmds[i] : i \in { j \in 1..Len(cmds) : cmds[j].id = commandId } }

failure(message) == [success |-> FALSE, error |-> message]

\* an executeCommand that runs the command of a disabled plugin
executeCommand_noEnabledCheck(x, pluginName, commandId, entity) ==
  LET rec == [IdleExecution EXCEPT !.pluginName = pluginName,
                                   !.commandId = commandId,
                                   !.entity = entity]
      done(message) == [rec EXCEPT !.status = "returned",
                                   !.result = failure(message)]
  IN /\ executions[x].status = "idle"
     /\ executions' =
          [executions EXCEPT ![x] =
             IF ~has(pluginName) THEN done("not found")
             ELSE IF commandWith(pluginName, commandId) = {}
             THEN done("not found")
             ELSE [rec EXCEPT
                     !.status = "awaiting",
                     !.emitted = <<[type |-> "command:started",
                                    pluginName |-> pluginName,
                                    commandId |-> commandId,
                                    entityId |-> entity.id]>>,
                     !.invoked = <<[pluginName |-> pluginName,
                                    commandId |-> commandId,
                                    entity |-> entity,
                                    config |-> getConfig(pluginName),
                                    at |-> 1]>>]]
     /\ UNCHANGED <<plugins, enabledPlugins, pluginConfigs, cleanupPending,
                    calls, last, listeners, closures,
                    detection, overlap, transform>>

\* an executeCommand that throws for a target it does not find
executeCommand_throwsUnknown(x, pluginName, commandId, entity) ==
  LET rec == [IdleExecution EXCEPT !.pluginName = pluginName,
                                   !.commandId = commandId,
                                   !.entity = entity]
      done(message) == [rec EXCEPT !.status = "returned",
                                   !.result = failure(message)]
  IN /\ executions[x].status = "idle"
     /\ executions' =
          [executions EXCEPT ![x] =
             IF ~has(pluginName) \/ commandWith(pluginName, commandId) = {}
             THEN [rec EXCEPT !.status = "rejected"]
             ELSE IF pluginName \notin enabledPlugins
             THEN done("not enabled")
             ELSE [rec EXCEPT
                     !.status = "awaiting",
                     !.emitted = <<[type |-> "command:started",
                                    pluginName |-> pluginName,
                                    commandId |-> commandId,
                                    entityId |-> entity.id]>>,
                     !.invoked = <<[pluginName |-> pluginName,
                                    commandId |-> commandId,
                                    entity |-> entity,
                                    config |-> getConfig(pluginName),
                                    at |-> 1]>>]]
     /\ UNCHANGED <<plugins, enabledPlugins, pluginConfigs, cleanupPending,
                    calls, last, listeners, closures,
                    detection, overlap, transform>>

\* an executeCommand that hands the handler an empty configuration
executeCommand_noConfig(x, pluginName, commandId, entity) ==
  LET rec == [IdleExecution EXCEPT !.pluginName = pluginName,
                                   !.commandId = commandId,
                                   !.entity = entity]
      done(message) == [rec EXCEPT !.status = "returned",
                                   !.result = failure(message)]
  IN /\ executions[x].status = "idle"
     /\ executions' =
          [executions EXCEPT ![x] =
             IF ~has(pluginName) THEN done("not found")
             ELSE IF commandWith(pluginName, commandId) = {}
             THEN done("not found")
             ELSE IF pluginName \notin enabledPlugins
             THEN done("not enabled")
             ELSE [rec EXCEPT
                     !.status = "awaiting",
                     !.emitted = <<[type |-> "command:started",
                                    pluginName |-> pluginName,
                                    commandId |-> commandId,
                                    entityId |-> entity.id]>>,
                     !.invoked = <<[pluginName |-> pluginName,
                                    commandId |-> commandId,
                                    entity |-> entity,
                                    config |-> EmptyConfig,
                                    at |-> 1]>>]]
     /\ UNCHANGED <<plugins, enabledPlugins, pluginConfigs, cleanupPending,
                    calls, last, listeners, closures,
                    detection, overlap, transform>>

\* executeCommand up to its await: not found for an unregistered plugin or
\* an id the plugin does not own, not enabled for a disabled plugin,
\* otherwise command:started and the handler is invoked with the plugin's
\* current configuration
executeCommand(x, pluginName, commandId, entity) ==
  LET rec == [IdleExecution EXCEPT !.pluginName = pluginName,
                                   !.commandId = commandId,
                                   !.entity = entity]
      done(message) == [rec EXCEPT !.status = "returned",
                                   !.result = failure(message)]
  IN /\ executions[x].status = "idle"
     /\ executions' =
          [executions EXCEPT ![x] =
             IF ~has(pluginName) THEN done("not found")
             ELSE IF commandWith(pluginName, commandId) = {}
             THEN done("not found")
             ELSE IF pluginName \notin enabledPlugins
             THEN done("not enabled")
             ELSE [rec EXCEPT
                     !.status = "awaiting",
                     !.emitted = <<[type |-> "command:started",
                                    pluginName |-> pluginName,
                                    commandId |-> commandId,
                                    entityId |-> entity.id]>>,
                     !.invoked = <<[pluginName |-> pluginName,
                                    commandId |-> commandId,
                                    entity |-> entity,
                                    config |-> getConfig(pluginName),
                                    at |-> 1]>>]]
     /\ UNCHANGED <<plugins, enabledPlugins, pluginConfigs, cleanupPending,
                    calls, last, listeners, closures,
                    detection, overlap, transform>>

ExecuteCommand ==
  \E x \in DOMAIN executions, pluginName \in Names,
     commandId \in CommandIds, entity \in Entities :
    executeCommand(x, pluginName, commandId, entity)

\* a settle without the try/catch: the handler's exception leaves the call
commandSettle_propagate(x, outcome) ==
  LET rec == executions[x]
  IN /\ rec.status = "awaiting"
     /\ executions' =
          [executions EXCEPT ![x] =
             IF outcome = "ok"
             THEN [rec EXCEPT !.status = "returned",
                              !.result = [success |-> TRUE],
                              !.settled = Append(@, outcome),
                              !.emitted =
                                Append(@, [type |-> "command:completed",
                                           pluginName |-> rec.pluginName,
                                           commandId |-> rec.commandId,
                                           result |-> [success |-> TRUE]])]
             ELSE [rec EXCEPT !.status = "rejected",
                              !.settled = Append(@, outcome)]]
     /\ UNCHANGED <<plugins, enabledPlugins, pluginConfigs, cleanupPending,
                    calls, last, listeners, closures,
                    detection, overlap, transform>>

\* the awaited command handler settles: command:completed with its result,
\* or command:error and the normalized failure when it threw Error('X')
commandSettle(x, outcome) ==
  LET rec == executions[x]
      result == IF outcome = "ok" THEN [success |-> TRUE] ELSE failure("X")
      ev == IF outcome = "ok"
            THEN [type |-> "command:completed",
                  pluginName |-> rec.pluginName,
                  commandId |-> rec.commandId, result |-> result]
            ELSE [type |-> "command:error", pluginName |-> rec.pluginName,
                  commandId |-> rec.commandId, error |-> "X"]
  IN /\ rec.status = "awaiting"
     /\ executions' =
          [executions EXCEPT ![x] =
             [rec EXCEPT !.status = "returned", !.result = result,
                         !.settled = Append(@, outcome),
                         !.emitted = Append(@, ev)]]
     /\ UNCHANGED <<plugins, enabledPlugins, pluginConfigs, cleanupPending,
                    calls, last, listeners, closures,
                    detection, overlap, transform>>

CommandSettle ==
  \E x \in DOMAIN executions, outcome \in HandlerOutcomes :
    commandSettle(x, outcome)

\* the caller has taken the settled promise of executeCommand
CommandTaken ==
  \E x \in DOMAIN executions :
    /\ executions[x].status = "returned"
    /\ executions' = [executions EXCEPT ![x] = IdleExecution]
    /\ UNCHANGED <<plugins, enabledPlugins, pluginConfigs, cleanupPending,
                   calls, last, listeners, closures,
                   detection, overlap, transform>>

CmdRegister == \E plugin \in CmdManifests : During(register(plugin))

\* ------------------------------------------------------------------------
\* Geometry utilities                          src/unnamed/part_006 3-21
\* ------------------------------------------------------------------------
\* an overlapRatio relative to the area of b
overlapRatio_relativeToB(a, b) ==
  LET intersectX1 == max(a.x1, b.x1)
      intersectY1 == max(a.y1, b.y1)
      intersectX2 == min(a.x2, b.x2)
      intersectY2 == min(a.y2, b.y2)
  IN IF intersectX1 >= intersectX2 \/ intersectY1 >= intersectY2
     THEN Num(0)
     ELSE LET intersectArea ==
                (intersectX2 - intersectX1) * (intersectY2 - intersectY1)
              bArea == (b.x2 - b.x1) * (b.y2 - b.y1)
          IN IF bArea > 0 THEN Frac(intersectArea, bArea) ELSE Num(0)

\* an overlapRatio relative to the area of the union (intersection over
\* union)
overlapRatio_overUnion(a, b) ==
  LET intersectX1 == max(a.x1, b.x1)
      intersectY1 == max(a.y1, b.y1)
      intersectX2 == min(a.x2, b.x2)
      intersectY2 == min(a.y2, b.y2)
  IN IF intersectX1 >= intersectX2 \/ intersectY1 >= intersectY2
     THEN Num(0)
     ELSE LET intersectArea ==
                (intersectX2 - intersectX1) * (intersectY2 - intersectY1)
              aArea == (a.x2 - a.x1) * (a.y2 - a.y1)
              bArea == (b.x2 - b.x1) * (b.y2 - b.y1)
          IN IF aArea > 0
             THEN Frac(intersectArea, aArea + bArea - intersectArea)
             ELSE Num(0)

overlapRatio(a, b) ==
  LET intersectX1 == max(a.x1, b.x1)
      intersectY1 == max(a.y1, b.y1)
      intersectX2 == min(a.x2, b.x2)
      intersectY2 == min(a.y2, b.y2)
  IN IF intersectX1 >= intersectX2 \/ intersectY1 >= intersectY2
     THEN Num(0)
     ELSE LET intersectArea ==
                (intersectX2 - intersectX1) * (intersectY2 - intersectY1)
              aArea == (a.x2 - a.x1) * (a.y2 - a.y1)
          IN IF aArea > 0 THEN Frac(intersectArea, aArea) ELSE Num(0)

\* the default of bboxContains' third parameter
DefaultThreshold == Frac(1, 2)

bboxContains(outer, inner, threshold) ==
  QLe(threshold, overlapRatio(inner, outer))

\* the calls: overlapRatio(a, b), bboxContains(a, b, threshold) and
\* bboxContains(a, b)
OverlapRatio ==
  /\ overlap.stage = "input"
  /\ overlap' = [overlap EXCEPT !.stage = "overlapRatio",
                                !.ratio = overlapRatio(overlap.a, overlap.b)]
  /\ UNCHANGED <<plugins, enabledPlugins, pluginConfigs, cleanupPending,
                 calls, last, listeners, closures, executions, detection,
                 transform>>

BboxContains ==
  /\ overlap.stage = "input"
  /\ \E threshold \in Thresholds :
       overlap' = [overlap EXCEPT
                     !.stage = "bboxContains",
                     !.threshold = threshold,
                     !.contains =
                       bboxContains(overlap.a, overlap.b, threshold)]
  /\ UNCHANGED <<plugins, enabledPlugins, pluginConfigs, cleanupPending,
                 calls, last, listeners, closures, executions, detection,
                 transform>>

BboxContainsDefault ==
  /\ overlap.stage = "input"
  /\ overlap' = [overlap EXCEPT
                   !.stage = "bboxContains",
                   !.threshold = DefaultThreshold,
                   !.contains =
                     bboxContains(overlap.a, overlap.b, DefaultThreshold)]
  /\ UNCHANGED <<plugins, enabledPlugins, pluginConfigs, cleanupPending,
                 calls, last, listeners, closures, executions, detection,
                 transform>>

\* ------------------------------------------------------------------------
\* Table detector             src/src/plugins/coord-table-detector/index.ts
\* A number computed by the detector is a rational <<n, d>>; the
\* coordinates of a block's bbox are integers, n standing for <<n, 1>>.
\* ------------------------------------------------------------------------
getBBoxCenter(bbox) ==
  [x |-> Frac(bbox.x1 + bbox.x2, 2), y |-> Frac(bbox.y1 + bbox.y2, 2)]

\* the ClusterBlock that the handler makes of an OCR block
clusterBlock(block) ==
  [id |-> block.id, bbox |-> block.bbox,
   xCenter |-> getBBoxCenter(block.bbox).x,
   yCenter |-> getBBoxCenter(block.bbox).y]

\* Array.prototype.sort by an ascending numeric key, stable: items is a
\* sequence of [key, val] and the result the sequence of the vals
sort(items) ==
  LET rank(i) ==
        1 + Cardinality({ j \in 1..Len(items) :
                            \/ QLt(items[j].key, items[i].key)
                            \/ items[j].key = items[i].key /\ j < i })
  IN [k \in 1..Len(items) |->
        items[CHOOSE i \in 1..Len(items) : rank(i) = k].val]

\* reduce((a, b) => a + b, 0)
RECURSIVE sum(_)
sum(numbers) ==
  IF numbers = <<>> THEN Num(0)
  ELSE QAdd(sum(SubSeq(numbers, 1, Len(numbers) - 1)),
            numbers[Len(numbers)])

\* the mean yCenter of the blocks of a row
rowYCenter(blocks) ==
  QDiv(sum([i \in 1..Len(blocks) |-> blocks[i].yCenter]), Num(Len(blocks)))

\* a loop of clusterIntoRows that takes a block into the current row only
\* when it is closer to the mean than the tolerance
RECURSIVE clusterLoop_strict(_, _, _, _, _)
clusterLoop_strict(sorted, i, rows, currentRow, tolerance) ==
  IF i > Len(sorted)
  THEN Append(rows, [currentRow EXCEPT
                       !.yCenter = rowYCenter(currentRow.blocks)])
  ELSE LET block == sorted[i]
           mean == rowYCenter(currentRow.blocks)
       IN IF QLt(QAbs(QSub(block.yCenter, mean)), tolerance)
          THEN clusterLoop_strict(sorted, i + 1, rows,
                                  [currentRow EXCEPT
                                     !.blocks = Append(@, block)],
                                  tolerance)
          ELSE clusterLoop_strict(sorted, i + 1,
                                  Append(rows,
                                         [currentRow EXCEPT !.yCenter = mean]),
                                  [yCenter |-> block.yCenter,
                                   blocks |-> <<block>>],
                                  tolerance)

\* the loop of clusterIntoRows from sorted[i] on
RECURSIVE clusterLoop(_, _, _, _, _)
clusterLoop(sorted, i, rows, currentRow, tolerance) ==
  IF i > Len(sorted)
  THEN Append(rows, [currentRow EXCEPT
                       !.yCenter = rowYCenter(currentRow.blocks)])
  ELSE LET block == sorted[i]
           mean == rowYCenter(currentRow.blocks)
       IN IF QLe(QAbs(QSub(block.yCenter, mean)), tolerance)
          THEN clusterLoop(sorted, i + 1, rows,
                           [currentRow EXCEPT !.blocks = Append(@, block)],
                           tolerance)
          ELSE clusterLoop(sorted, i + 1,
                           Append(rows, [currentRow EXCEPT !.yCenter = mean]),
                           [yCenter |-> block.yCenter, blocks |-> <<block>>],
                           tolerance)

\* a clusterIntoRows that takes the blocks in document order, unsorted
clusterIntoRows_unsorted(blocks, tolerance) ==
  IF Len(blocks) = 0 THEN <<>>
  ELSE clusterLoop(blocks, 2, <<>>,
                   [yCenter |-> blocks[1].yCenter, blocks |-> <<blocks[1]>>],
                   tolerance)

clusterIntoRows(blocks, tolerance) ==
  IF Len(blocks) = 0 THEN <<>>
  ELSE LET sorted == sort([i \in 1..Len(blocks) |->
                             [key |-> blocks[i].yCenter, val |-> blocks[i]]])
       IN clusterLoop(sorted, 2, <<>>,
                      [yCenter |-> sorted[1].yCenter, blocks |-> <<sorted[1]>>],
                      tolerance)

\* the x centers of all rows, row by row, with the 0-based row index
RECURSIVE allXCenters(_, _)
allXCenters(rows, n) ==
  IF n = 0 THEN <<>>
  ELSE allXCenters(rows, n - 1) \o
         [i \in 1..Len(rows[n].blocks) |->
            [x |-> rows[n].blocks[i].xCenter, rowIdx |-> n - 1]]

\* the loop of detectColumns over the sorted x centers from sorted[i] on;
\* xs is not in the code: it records the x centers merged into the cluster
RECURSIVE columnLoop(_, _, _, _)
columnLoop(sorted, i, columnClusters, tolerance) ==
  IF i > Len(sorted) THEN columnClusters
  ELSE LET item == sorted[i]
           near == { k \in 1..Len(columnClusters) :
                       QLe(QAbs(QSub(item.x, columnClusters[k].xCenter)),
                           tolerance) }
       IN IF near = {}
          THEN columnLoop(sorted, i + 1,
                          Append(columnClusters,
                                 [xCenter |-> item.x,
                                  rowSet |-> {item.rowIdx},
                                  xs |-> <<item.x>>]),
                          tolerance)
          ELSE LET k == CHOOSE c \in near : \A d \in near : c <= d
                   cluster == columnClusters[k]
                   rowSet == cluster.rowSet \cup {item.rowIdx}
                   size == Cardinality(rowSet)
               IN columnLoop(sorted, i + 1,
                             [columnClusters EXCEPT ![k] =
                                [xCenter |->
                                   QDiv(QAdd(QMul(cluster.xCenter, Num(size)),
                                             item.x),
                                        Num(size + 1)),
                                 rowSet |-> rowSet,
                                 xs |-> Append(cluster.xs, item.x)]],
                             tolerance)

\* the column clusters of detectColumns when its loop is over, before the
\* clusters with too few rows are dropped
clustersOf(rows, tolerance) ==
  LET all == allXCenters(rows, Len(rows))
  IN IF Len(all) = 0 THEN <<>>
     ELSE columnLoop(sort([i \in 1..Len(all) |->
                             [key |-> all[i].x, val |-> all[i]]]),
                     1, <<>>, tolerance)

\* a detectColumns that keeps every column cluster, however few rows
\* support it
detectColumns_noSupport(rows, tolerance, minRows) ==
  IF Len(rows) < minRows THEN <<>>
  ELSE LET all == allXCenters(rows, Len(rows))
       IN IF Len(all) = 0 THEN <<>>
          ELSE LET sorted == sort([i \in 1..Len(all) |->
                                     [key |-> all[i].x, val |-> all[i]]])
                   columnClusters == columnLoop(sorted, 1, <<>>, tolerance)
               IN sort([i \in 1..Len(columnClusters) |->
                          [key |-> columnClusters[i].xCenter,
                           val |-> columnClusters[i].xCenter]])

detectColumns(rows, tolerance, minRows) ==
  IF Len(rows) < minRows THEN <<>>
  ELSE LET all == allXCenters(rows, Len(rows))
       IN IF Len(all) = 0 THEN <<>>
          ELSE LET sorted == sort([i \in 1..Len(all) |->
                                     [key |-> all[i].x, val |-> all[i]]])
                   columnClusters == columnLoop(sorted, 1, <<>>, tolerance)
                   valid == SelectSeq(columnClusters,
                                      LAMBDA col :
                                        Cardinality(col.rowSet) >= minRows)
               IN sort([i \in 1..Len(valid) |->
                          [key |-> valid[i].xCenter,
                           val |-> valid[i].xCenter]])

\* a cell of buildGrid that binds the last block of the row within the
\* tolerance of the column, and leaves the bbox of an empty cell at zero
gridCell_lastMatch(rows, columns, tolerance, rowIdx, colIdx) ==
  LET row == rows[rowIdx + 1]
      colX == columns[colIdx + 1]
      matching == { k \in 1..Len(row.blocks) :
                      QLe(QAbs(QSub(row.blocks[k].xCenter, colX)),
                          tolerance) }
  IN IF matching # {}
     THEN LET matchingBlock ==
                row.blocks[CHOOSE k \in matching : \A l \in matching : k >= l]
          IN [blockId |-> matchingBlock.id, bbox |-> matchingBlock.bbox,
              row |-> rowIdx, col |-> colIdx]
     ELSE [blockId |-> "null",
           bbox |-> [x1 |-> Num(0), y1 |-> 0, x2 |-> Num(0), y2 |-> 0],
           row |-> rowIdx, col |-> colIdx]

\* the cell of buildGrid for row rowIdx and column colIdx (0-based); the
\* blockId of an empty cell, null, is "null"
gridCell(rows, columns, tolerance, rowIdx, colIdx) ==
  LET row == rows[rowIdx + 1]
      colX == columns[colIdx + 1]
      matching == { k \in 1..Len(row.blocks) :
                      QLe(QAbs(QSub(row.blocks[k].xCenter, colX)),
                          tolerance) }
  IN IF matching # {}
     THEN LET matchingBlock ==
                row.blocks[CHOOSE k \in matching : \A l \in matching : k <= l]
          IN [blockId |-> matchingBlock.id, bbox |-> matchingBlock.bbox,
              row |-> rowIdx, col |-> colIdx]
     ELSE LET colWidth ==
                IF Len(columns) > 1
                THEN IF colIdx < Len(columns) - 1
                     THEN QSub(columns[colIdx + 2], colX)
                     ELSE QSub(colX, columns[colIdx])
                ELSE Num(100)
              minY == CHOOSE y \in { row.blocks[k].bbox.y1 :
                                       k \in 1..Len(row.blocks) } :
                        \A k \in 1..Len(row.blocks) :
                          y <= row.blocks[k].bbox.y1
              maxY == CHOOSE y \in { row.blocks[k].bbox.y2 :
                                       k \in 1..Len(row.blocks) } :
                        \A k \in 1..Len(row.blocks) :
                          y >= row.blocks[k].bbox.y2
          IN [blockId |-> "null",
              bbox |-> [x1 |-> QSub(colX, QDiv(colWidth, Num(2))),
                        y1 |-> minY,
                        x2 |-> QAdd(colX, QDiv(colWidth, Num(2))),
                        y2 |-> maxY],
              row |-> rowIdx, col |-> colIdx]

buildGrid(rows, columns, tolerance) ==
  [r \in 1..Len(rows) |->
     [c \in 1..Len(columns) |->
        gridCell(rows, columns, tolerance, r - 1, c - 1)]]

\* 1 / (1 + variance / mean) of the numbers, 0 for a mean that is not
\* positive (and for no numbers at all)
consistency(numbers) ==
  IF Len(numbers) = 0 THEN Num(0)
  ELSE LET avg == QDiv(sum(numbers), Num(Len(numbers)))
           variance ==
             QDiv(sum([i \in 1..Len(numbers) |->
                         QMul(QSub(numbers[i], avg), QSub(numbers[i], avg))]),
                  Num(Len(numbers)))
       IN IF QLt(Num(0), avg)
          THEN QDiv(Num(1), QAdd(Num(1), QDiv(variance, avg)))
          ELSE Num(0)

\* the mean of the numbers, 0 for none
average(numbers) ==
  IF Len(numbers) > 0 THEN QDiv(sum(numbers), Num(Len(numbers)))
  ELSE Num(0)

\* a calculateConfidence that leaves the column widths out of the sum
calculateConfidence_rowsOnly(grid) ==
  IF Len(grid) = 0 \/ Len(grid[1]) = 0 THEN Num(0)
  ELSE
    LET rowCount == Len(grid)
        colCount == Len(grid[1])
        filled(cells) == SelectSeq(cells, LAMBDA c : c.blockId # "null")
        filledCells ==
          Cardinality({ rc \in (1..rowCount) \X (1..colCount) :
                          grid[rc[1]][rc[2]].blockId # "null" })
        fillRatio == Frac(filledCells, rowCount * colCount)
        rowHeights ==
          [r \in 1..rowCount |->
             LET cells == filled(grid[r])
             IN average([i \in 1..Len(cells) |->
                           Num(cells[i].bbox.y2 - cells[i].bbox.y1)])]
    IN QAdd(QMul(fillRatio, Frac(4, 10)),
            QMul(consistency(rowHeights), Frac(3, 10)))

calculateConfidence(grid) ==
  IF Len(grid) = 0 \/ Len(grid[1]) = 0 THEN Num(0)
  ELSE
    LET rowCount == Len(grid)
        colCount == Len(grid[1])
        filled(cells) == SelectSeq(cells, LAMBDA c : c.blockId # "null")
        filledCells ==
          Cardinality({ rc \in (1..rowCount) \X (1..colCount) :
                          grid[rc[1]][rc[2]].blockId # "null" })
        fillRatio == Frac(filledCells, rowCount * colCount)
        rowHeights ==
          [r \in 1..rowCount |->
             LET cells == filled(grid[r])
             IN average([i \in 1..Len(cells) |->
                           Num(cells[i].bbox.y2 - cells[i].bbox.y1)])]
        column(c) == filled([r \in 1..rowCount |-> grid[r][c]])
        cols == SelectSeq([c \in 1..colCount |-> c],
                          LAMBDA c : Len(column(c)) > 0)
        colWidths ==
          [n \in 1..Len(cols) |->
             LET cells == column(cols[n])
             IN average([i \in 1..Len(cells) |->
                           Num(cells[i].bbox.x2 - cells[i].bbox.x1)])]
        confidence ==
          QAdd(QAdd(QMul(fillRatio, Frac(4, 10)),
                    QMul(consistency(rowHeights), Frac(3, 10))),
               QMul(consistency(colWidths), Frac(3, 10)))
        atLeast0 == IF QLt(confidence, Num(0)) THEN Num(0) ELSE confidence
    IN IF QLt(Num(1), atLeast0) THEN Num(1) ELSE atLeast0

computeTableBBox(blocks) ==
  IF Len(blocks) = 0 THEN [x1 |-> 0, y1 |-> 0, x2 |-> 0, y2 |-> 0]
  ELSE LET all == 1..Len(blocks)
       IN [x1 |-> CHOOSE v \in { blocks[k].bbox.x1 : k \in all } :
                    \A k \in all : v <= blocks[k].bbox.x1,
           y1 |-> CHOOSE v \in { blocks[k].bbox.y1 : k \in all } :
                    \A k \in all : v <= blocks[k].bbox.y1,
           x2 |-> CHOOSE v \in { blocks[k].bbox.x2 : k \in all } :
                    \A k \in all : v >= blocks[k].bbox.x2,
           y2 |-> CHOOSE v \in { blocks[k].bbox.y2 : k \in all } :
                    \A k \in all : v >= blocks[k].bbox.y2]

\* rows.flatMap((r) => r.blocks)
RECURSIVE flatMap(_, _)
flatMap(rows, n) ==
  IF n = 0 THEN <<>> ELSE flatMap(rows, n - 1) \o rows[n].blocks

\* the table of step 5; its id, which holds Date.now(), is left out
detectedTable(rows, columns, grid, confidence, pageNumber) ==
  LET allBlocks == flatMap(rows, Len(rows))
  IN [bbox |-> computeTableBBox(allBlocks),
      pageNumber |-> pageNumber,
      rowCount |-> Len(rows),
      columnCount |-> Len(columns),
      confidence |-> confidence,
      blockIds |-> [i \in 1..Len(allBlocks) |-> allBlocks[i].id],
      grid |-> grid]

\* a detectTablesOnPage that does not compare the confidence with the
\* threshold
detectTablesOnPage_anyConfidence(blocks, pageNumber, config) ==
  IF Len(blocks) < config.minRows * config.minColumns THEN <<>>
  ELSE
    LET rows == clusterIntoRows(blocks, config.rowTolerance)
    IN IF Len(rows) < config.minRows THEN <<>>
       ELSE
         LET columns ==
               detectColumns(rows, config.columnTolerance, config.minRows)
         IN IF Len(columns) < config.minColumns THEN <<>>
            ELSE
              LET grid == buildGrid(rows, columns, config.columnTolerance)
                  confidence == calculateConfidence(grid)
              IN <<detectedTable(rows, columns, grid, confidence,
                                 pageNumber)>>

detectTablesOnPage(blocks, pageNumber, config) ==
  IF Len(blocks) < config.minRows * config.minColumns THEN <<>>
  ELSE
    LET rows == clusterIntoRows(blocks, config.rowTolerance)
    IN IF Len(rows) < config.minRows THEN <<>>
       ELSE
         LET columns ==
               detectColumns(rows, config.columnTolerance, config.minRows)
         IN IF Len(columns) < config.minColumns THEN <<>>
            ELSE
              LET grid == buildGrid(rows, columns, config.columnTolerance)
                  confidence == calculateConfidence(grid)
              IN IF QLt(confidence, config.confidenceThreshold) THEN <<>>
                 ELSE <<detectedTable(rows, columns, grid, confidence,
                                      pageNumber)>>

\* the handler's run on the blocks of one page: the blocks become
\* ClusterBlocks and detectTablesOnPage is applied to them
DetectTablesOnPage ==
  /\ detection.stage = "input"
  /\ detection' =
       [detection EXCEPT
          !.stage = "returned",
          !.tables =
            detectTablesOnPage(
              [i \in 1..Len(detection.blocks) |->
                 clusterBlock(detection.blocks[i])],
              detection.pageNumber, detection.config)]
  /\ UNCHANGED <<plugins, enabledPlugins, pluginConfigs, cleanupPending,
                 calls, last, listeners, closures, executions, overlap,
                 transform>>

\* ------------------------------------------------------------------------
\* qwen-markdown plugin                 src/src/plugins/qwen-markdown/index.ts
\* ------------------------------------------------------------------------
\* the arguments of the fetch of callTransformApi: the URL and the fields
\* of the JSON body
fetchRequest(imageUrl, config, promptStyle) ==
  [url |-> config.apiEndpoint,
   method |-> "POST",
   body |-> [imageUrl |-> imageUrl,
             model |-> config.model,
             promptStyle |-> promptStyle,
             entityType |-> "all"]]

\* the try block of callTransformApi from the answer of fetch on: what it
\* returns, or the value it throws
tryBlock(outcome, promptStyle) ==
  CASE outcome.kind = "reject" ->
         [thrown |-> TRUE, isError |-> outcome.isError,
          message |-> outcome.message]
    [] outcome.kind = "status" ->
         IF outcome.text = "throws"
         THEN [thrown |-> TRUE, isError |-> TRUE,
               message |-> "body stream already read"]
         ELSE [thrown |-> FALSE,
               value |-> [success |-> FALSE,
                          error |-> "API error: " \o
                                    ToString(outcome.status) \o " - " \o
                                    outcome.text]]
    [] outcome.json = "throws" ->
         [thrown |-> TRUE, isError |-> TRUE,
          message |-> "Unexpected token < in JSON"]
    [] outcome.json = "null" ->
         [thrown |-> TRUE, isError |-> TRUE,
          message |-> "Cannot read properties of null"]
    [] ~outcome.success ->
         [thrown |-> FALSE,
          value |-> [success |-> FALSE,
                     error |-> IF outcome.error # "" THEN outcome.error
                               ELSE "Unknown API error"]]
    [] OTHER ->
         [thrown |-> FALSE,
          value |-> [success |-> TRUE,
                     content |-> "data.markdown",
                     format |-> IF promptStyle = "json" THEN "json"
                                ELSE "markdown"]]

\* what the promise of callTransformApi settles with
callTransformApi(outcome, promptStyle) ==
  LET tried == tryBlock(outcome, promptStyle)
  IN IF tried.thrown
     THEN [settled |-> "fulfilled",
           value |-> [success |-> FALSE,
                      error |-> IF tried.isError THEN tried.message
                                ELSE "Network error"]]
     ELSE [settled |-> "fulfilled", value |-> tried.value]

\* the three commands: promptStyle is the style that the handler passes to
\* callTransformApi
extractMarkdownCommand ==
  [id |-> "extract-markdown", contexts |-> {"table", "figure", "all"},
   promptStyle |-> "table"]

extractPageMarkdownCommand ==
  [id |-> "extract-page-markdown", contexts |-> {"all"},
   promptStyle |-> "page"]

extractJsonCommand ==
  [id |-> "extract-json", contexts |-> {"table"}, promptStyle |-> "json"]

qwenMarkdownPlugin ==
  [name |-> "qwen-markdown",
   commands |-> <<extractMarkdownCommand, extractPageMarkdownCommand,
                  extractJsonCommand>>]

\* the handler of a command up to its await: without an imageUrl it
\* returns the failure, with one it calls fetch
CommandHandler ==
  /\ transform.stage = "input"
  /\ transform' =
       IF transform.ctx.imageUrl \in {"undefined", ""}
       THEN [transform EXCEPT
               !.stage = "returned",
               !.result = [settled |-> "fulfilled",
                           value |-> [success |-> FALSE,
                                      error |-> "No image URL provided"]]]
       ELSE [transform EXCEPT
               !.stage = "fetch",
               !.fetches = Append(@, fetchRequest(transform.ctx.imageUrl,
                                                  transform.ctx.config,
                                                  transform.command.promptStyle))]
  /\ UNCHANGED <<plugins, enabledPlugins, pluginConfigs, cleanupPending,
                 calls, last, listeners, closures, executions, detection,
                 overlap>>

\* the fetch settles and callTransformApi runs to its end
FetchSettle ==
  /\ transform.stage = "fetch"
  /\ \E outcome \in ApiOutcomes :
       transform' =
         [transform EXCEPT
            !.stage = "returned",
            !.outcome = outcome,
            !.result = callTransformApi(outcome, transform.command.promptStyle)]
  /\ UNCHANGED <<plugins, enabledPlugins, pluginConfigs, cleanupPending,
                 calls, last, listeners, closures, executions, detection,
                 overlap>>

\* The stages of detection one by one, each applied to what the stage
\* before it returned: detection.stage runs blocks, rows, columns, grid
ClusterIntoRows ==
  /\ detection.stage = "blocks"
  /\ detection' =
       [detection EXCEPT
          !.stage = "rows",
          !.rows = clusterIntoRows(detection.blocks,
                                   detection.config.rowTolerance)]
  /\ UNCHANGED <<plugins, enabledPlugins, pluginConfigs, cleanupPending,
                 calls, last, listeners, closures, executions, overlap,
                 transform>>

DetectColumns ==
  /\ detection.stage = "rows"
  /\ detection' =
       [detection EXCEPT
          !.stage = "columns",
          !.clusters = clustersOf(detection.rows,
                                  detection.config.columnTolerance),
          !.columns = detectColumns(detection.rows,
                                    detection.config.columnTolerance,
                                    detection.config.minRows)]
  /\ UNCHANGED <<plugins, enabledPlugins, pluginConfigs, cleanupPending,
                 calls, last, listeners, closures, executions, overlap,
                 transform>>

BuildGrid ==
  /\ detection.stage = "columns"
  /\ detection' =
       [detection EXCEPT
          !.stage = "grid",
          !.grid = buildGrid(detection.rows, detection.columns,
                             detection.config.columnTolerance)]
  /\ UNCHANGED <<plugins, enabledPlugins, pluginConfigs, cleanupPending,
                 calls, last, listeners, closures, executions, overlap,
                 transform>>

\* ------------------------------------------------------------------------
\* Specifications
\* ------------------------------------------------------------------------
\* the registry calls, each observed through last
NextRegistry ==
  \/ Register
  \/ Unregister
  \/ Enable
  \/ Disable
  \/ SetConfig
  \/ Clear
  \/ CleanupSettle

SpecRegistry == Init /\ [][NextRegistry]_vars

\* runEvent calls, with registry calls of other callers in between
Next ==
  \/ RunEvent
  \/ Resume
  \/ Taken
  \/ DuringRegister
  \/ DuringUnregister
  \/ DuringEnable
  \/ DuringDisable
  \/ DuringSetConfig
  \/ DuringClear
  \/ DuringCleanupSettle

Spec == Init /\ [][Next]_vars

\* runEvent calls over manifests with dependencies, with registry calls of
\* other callers in between
NextOrder ==
  \/ RunEvent
  \/ Resume
  \/ Taken
  \/ OrderRegister
  \/ OrderUnregister

SpecOrder == Init /\ [][NextOrder]_vars

\* the event bus: subscribing, unsubscribing, and the events published by
\* emit, register and enable
BusManifests == { m \in Manifests : m.id \in {2, 3} }

BusRegister ==
  \E plugin \in BusManifests :
    Observed("register", plugin.name, plugin.id, EmptyConfig, register(plugin))

NextBus ==
  \/ On
  \/ Off
  \/ Emit
  \/ BusRegister
  \/ Enable

SpecBus == Init /\ [][NextBus]_vars

\* command lookup and execution, with registry calls in between
NextCommands ==
  \/ GetCommandsForEntity
  \/ ExecuteCommand
  \/ CommandSettle
  \/ CommandTaken
  \/ CmdRegister
  \/ DuringEnable
  \/ DuringDisable
  \/ DuringSetConfig

SpecCommands == Init /\ [][NextCommands]_vars

\* two concurrent runEvent calls, one of them stuck on a handler that never
\* settles (No cancellation or timeout exists: nothing but the handler's own
\* settlement resumes a call)
HangManifests == { m \in DepManifests : m.id \in {11, 13, 15} }

InitHang ==
  /\ plugins = <<>>
  /\ enabledPlugins = {}
  /\ pluginConfigs = EmptyConfig
  /\ cleanupPending = [n \in Names |-> 0]
  /\ calls = [c \in Callers |-> IdleCall]
  /\ last = NoCall
  /\ listeners = NoListeners
  /\ closures = <<>>
  /\ executions = [x \in Executors |-> IdleExecution]
  /\ transform = NoTransform
  /\ detection = NoDetection
  /\ overlap = NoOverlap

HangRegister == \E plugin \in HangManifests : During(register(plugin))

HangRunEvent(c) == \E event \in Events : runEvent(c, event)

HangResume == \E outcome \in HandlerOutcomes : resume(Other, outcome)

NextHang ==
  \/ \E c \in Callers : HangRunEvent(c)
  \/ HangResume
  \/ Taken
  \/ HangRegister

\* the other caller does call runEvent, and the handlers it awaits do settle
SpecHang ==
  /\ InitHang
  /\ [][NextHang]_vars
  /\ WF_vars(HangRunEvent(Other))
  /\ WF_vars(HangResume)

\* runEvent over two plugins that subscribe to the same event, with the
\* registry calls that change enablement and configuration made while a
\* handler is awaited
TurnsManifests == { m \in Manifests : m.id \in {1, 3} }

TurnsRegister == \E plugin \in TurnsManifests : During(register(plugin))

NextTurns ==
  \/ TurnsRunEvent
  \/ Resume
  \/ Taken
  \/ TurnsRegister
  \/ DuringEnable
  \/ DuringDisable
  \/ DuringSetConfig

SpecTurns == Init /\ [][NextTurns]_vars

\* The geometry utilities, applied to every pair of boxes
InitGeometry ==
  /\ plugins = <<>>
  /\ enabledPlugins = {}
  /\ pluginConfigs = EmptyConfig
  /\ cleanupPending = [n \in Names |-> 0]
  /\ calls = [c \in CallIds |-> IdleCall]
  /\ last = NoCall
  /\ listeners = NoListeners
  /\ closures = <<>>
  /\ executions = [x \in Executors |-> IdleExecution]
  /\ transform = NoTransform
  /\ detection = NoDetection
  /\ \E a \in Boxes, b \in Boxes :
       overlap = [stage |-> "input", a |-> a, b |-> b,
                  ratio |-> Num(0), threshold |-> Num(0),
                  contains |-> FALSE]

NextGeometry ==
  \/ OverlapRatio
  \/ BboxContains
  \/ BboxContainsDefault

SpecGeometry == InitGeometry /\ [][NextGeometry]_vars

\* The table detector, applied to every page of at most MaxBlocks blocks
InitDetector ==
  /\ plugins = <<>>
  /\ enabledPlugins = {}
  /\ pluginConfigs = EmptyConfig
  /\ cleanupPending = [n \in Names |-> 0]
  /\ calls = [c \in CallIds |-> IdleCall]
  /\ last = NoCall
  /\ listeners = NoListeners
  /\ closures = <<>>
  /\ executions = [x \in Executors |-> IdleExecution]
  /\ transform = NoTransform
  /\ overlap = NoOverlap
  /\ \E S \in SUBSET Positions, shape \in Shapes, order \in Orders,
        config \in Configs :
       /\ Cardinality(S) <= MaxBlocks
       /\ detection = [stage |-> "input",
                       blocks |-> PageBlocks(shape, S, order),
                       pageNumber |-> 1,
                       config |-> config,
                       tables |-> <<>>]

NextDetector == DetectTablesOnPage

SpecDetector == InitDetector /\ [][NextDetector]_vars

\* The stages of the table detector, applied one after the other to every
\* page of at most MaxBlocks blocks: under the default tolerances, under
\* tolerances of 5, and under a row tolerance of 30 with minRows 3
StageConfigs ==
  { DetectorConfig(15, 20, 2, 2, Frac(7, 10)),
    DetectorConfig(5, 5, 2, 2, Frac(7, 10)),
    DetectorConfig(30, 20, 3, 2, Frac(7, 10)) }

InitStages ==
  /\ plugins = <<>>
  /\ enabledPlugins = {}
  /\ pluginConfigs = EmptyConfig
  /\ cleanupPending = [n \in Names |-> 0]
  /\ calls = [c \in CallIds |-> IdleCall]
  /\ last = NoCall
  /\ listeners = NoListeners
  /\ closures = <<>>
  /\ executions = [x \in Executors |-> IdleExecution]
  /\ transform = NoTransform
  /\ overlap = NoOverlap
  /\ \E S \in SUBSET Positions, shape \in Shapes, order \in Orders,
        config \in StageConfigs :
       /\ Cardinality(S) <= MaxBlocks
       /\ detection =
            [stage |-> "blocks",
             blocks |-> LET page == PageBlocks(shape, S, order)
                        IN [i \in 1..Len(page) |-> clusterBlock(page[i])],
             config |-> config,
             rows |-> <<>>,
             clusters |-> <<>>,
             columns |-> <<>>,
             grid |-> <<>>]

NextStages ==
  \/ ClusterIntoRows
  \/ DetectColumns
  \/ BuildGrid

SpecStages == InitStages /\ [][NextStages]_vars

\* The commands of the qwen-markdown plugin, each called once on every
\* context
InitQwen ==
  /\ plugins = <<>>
  /\ enabledPlugins = {}
  /\ pluginConfigs = EmptyConfig
  /\ cleanupPending = [n \in Names |-> 0]
  /\ calls = [c \in CallIds |-> IdleCall]
  /\ last = NoCall
  /\ listeners = NoListeners
  /\ closures = <<>>
  /\ executions = [x \in Executors |-> IdleExecution]
  /\ detection = NoDetection
  /\ overlap = NoOverlap
  /\ \E i \in 1..Len(qwenMarkdownPlugin.commands), type \in EntityTypes,
        imageUrl \in ImageUrls, config \in QwenConfigs :
       transform = [stage |-> "input",
                    command |-> qwenMarkdownPlugin.commands[i],
                    ctx |-> [entity |-> [id |-> "node-1", type |-> type],
                             imageUrl |-> imageUrl,
                             config |-> config],
                    fetches |-> <<>>,
                    outcome |-> [kind |-> "none"],
                    result |-> [settled |-> "pending"]]

NextQwen ==
  \/ CommandHandler
  \/ FetchSettle

SpecQwen == InitQwen /\ [][NextQwen]_vars

\* ------------------------------------------------------------------------
\* Properties of the registry (checked under SpecRegistry)
\* ------------------------------------------------------------------------
\* the three maps are left as they were by the step
MapsUnchanged ==
  /\ plugins' = plugins
  /\ enabledPlugins' = enabledPlugins
  /\ pluginConfigs' = pluginConfigs

\* C1: register(p) while a plugin named p.name is registered throws and
\* leaves the registry as it was: the manifest returned for the name is still
\* the first one, the enabled set and the config map are unchanged, and no
\* plugin:registered event is published.
C1_DuplicateRegisterRejected ==
  [][ (last'.op = "register" /\ has(last'.name)) =>
        /\ last'.threw
        /\ MapsUnchanged
        /\ \A i \in 1..Len(plugins') :
             plugins'[i].name = last'.name =>
               plugins'[i] = getPlugin(last'.name)
        /\ last'.emitted = <<>> ]_vars

\* a register call of a manifest other than the stored one was rejected
C1_Witness ==
  /\ last.op = "register"
  /\ last.threw
  /\ has(last.name)
  /\ getPlugin(last.name).id # last.id
  /\ last.name \in enabledPlugins
  /\ last.name \in DOMAIN pluginConfigs

\* C2: register(p) with a name not yet registered stores the manifest (at the
\* end of the map), seeds the configuration with the default of every
\* configSchema field, puts the name in the enabled set iff p.defaultEnabled,
\* and publishes exactly one plugin:registered event naming p.
C2_RegisterStoresAndSeeds ==
  [][ (last'.op = "register" /\ ~has(last'.name)) =>
        LET p == Manifest(last'.id)
        IN /\ ~last'.threw
           /\ plugins' = Append(plugins, p)
           /\ p.hasSchema =>
                /\ p.name \in DOMAIN pluginConfigs'
                /\ DOMAIN pluginConfigs'[p.name] = DOMAIN p.schemaDefaults
                /\ \A k \in DOMAIN p.schemaDefaults :
                     pluginConfigs'[p.name][k] = p.schemaDefaults[k]
           /\ ~p.hasSchema => p.name \notin DOMAIN pluginConfigs'
           /\ \A n \in (DOMAIN pluginConfigs) \ {p.name} :
                n \in DOMAIN pluginConfigs' /\ pluginConfigs'[n] = pluginConfigs[n]
           /\ p.name \in enabledPlugins' <=> p.defaultEnabled
           /\ enabledPlugins' \ {p.name} = enabledPlugins \ {p.name}
           /\ last'.emitted = <<[type |-> "plugin:registered",
                                 name |-> p.name]>> ]_vars

\* a manifest with a two-field schema and defaultEnabled false has just been
\* registered next to another plugin
C2_Witness ==
  /\ last.op = "register"
  /\ ~last.threw
  /\ last.id = 3
  /\ Len(plugins) = 2
  /\ pluginConfigs["beta"] = ("a" :> 1 @@ "b" :> 0)
  /\ "beta" \notin enabledPlugins
  /\ "alpha" \in enabledPlugins

\* C3: enable and disable are idempotent: a second enable(n) (disable(n))
\* right after the first leaves the plugin map, the enabled set and the
\* config map as the first call left them.
C3_EnableDisableIdempotent ==
  [][ ( /\ last'.op \in {"enable", "disable"}
        /\ last'.prev.op = last'.op
        /\ last'.prev.name = last'.name
        /\ ~last'.prev.threw ) =>
        (~last'.threw /\ MapsUnchanged) ]_vars

\* a plugin that is disabled by default was enabled twice in a row
C3_Witness ==
  /\ last.op = "enable"
  /\ last.prev.op = "enable"
  /\ last.prev.name = last.name
  /\ ~last.prev.threw
  /\ ~last.threw
  /\ has(last.name)
  /\ ~getPlugin(last.name).defaultEnabled
  /\ last.name \in enabledPlugins

\* every enabled name and every configured name is registered
RegistryConsistent ==
  /\ enabledPlugins \subseteq Registered
  /\ DOMAIN pluginConfigs \subseteq Registered

\* C4: enable(n) and setConfig(n, partial) on a name that is not registered
\* throw, leave the three maps unchanged and publish nothing; no sequence of
\* calls puts an unregistered name into the enabled set or the config map.
C4_UnknownNameRejected ==
  /\ []RegistryConsistent
  /\ [][ (last'.op \in {"enable", "setConfig"} /\ ~has(last'.name)) =>
           (last'.threw /\ MapsUnchanged /\ last'.emitted = <<>>) ]_vars

\* enable and then setConfig were both rejected for a name that is not
\* registered while another plugin is
C4_Witness ==
  /\ last.op = "setConfig"
  /\ last.threw
  /\ last.prev.op = "enable"
  /\ last.prev.name = last.name
  /\ last.prev.threw
  /\ ~has(last.name)
  /\ Registered # {}

\* C5: setConfig(n, partial) on a registered plugin merges: every key of
\* partial gets partial's value, every other key present before keeps its
\* value, no other key appears, and the plugin:configChanged event carries
\* the full resulting configuration.
C5_SetConfigMerges ==
  [][ (last'.op = "setConfig" /\ has(last'.name)) =>
        LET n == last'.name
            partial == last'.arg
            old == getConfig(n)
        IN /\ ~last'.threw
           /\ n \in DOMAIN pluginConfigs'
           /\ DOMAIN pluginConfigs'[n] = (DOMAIN old) \cup (DOMAIN partial)
           /\ \A k \in DOMAIN partial : pluginConfigs'[n][k] = partial[k]
           /\ \A k \in (DOMAIN old) \ (DOMAIN partial) :
                pluginConfigs'[n][k] = old[k]
           /\ last'.emitted = <<[type |-> "plugin:configChanged", name |-> n,
                                 config |-> pluginConfigs'[n]]>> ]_vars

\* setConfig({a:1}) then setConfig({b:2}) on a plugin whose schema default is
\* {a:0} has produced {a:1, b:2}
C5_Witness ==
  /\ last.op = "setConfig"
  /\ last.name = "alpha"
  /\ last.arg = ("b" :> 2)
  /\ last.prev.op = "setConfig"
  /\ last.prev.name = "alpha"
  /\ has("alpha")
  /\ getPlugin("alpha").id = 1
  /\ pluginConfigs["alpha"] = ("a" :> 1 @@ "b" :> 2)
  /\ last.emitted[1].config = ("a" :> 1 @@ "b" :> 2)

\* C6: unregister(n) of a registered plugin that declares cleanup invokes the
\* cleanup exactly once, while the plugin is still in getPlugins(); afterwards
\* n is absent from the three maps and plugin:unregistered was published once.
C6_UnregisterCleansUpThenRemoves ==
  [][ ( /\ last'.op = "unregister"
        /\ has(last'.name)
        /\ getPlugin(last'.name).cleanup # "none" ) =>
        /\ Len(last'.cleanups) = 1
        /\ last'.cleanups[1].name = last'.name
        /\ last'.cleanups[1].visible
        /\ last'.name \notin Registered'
        /\ last'.name \notin enabledPlugins'
        /\ last'.name \notin DOMAIN pluginConfigs'
        /\ last'.emitted = <<[type |-> "plugin:unregistered",
                              name |-> last'.name]>> ]_vars

\* C7: when the cleanup called by unregister(n) throws, n is still removed
\* from the three maps and plugin:unregistered is still published.
C7_CleanupFailureTolerated ==
  ( /\ last.op = "unregister"
    /\ last.cleanups # <<>>
    /\ last.cleanups[1].threw ) =>
    /\ last.name \notin Registered
    /\ last.name \notin enabledPlugins
    /\ last.name \notin DOMAIN pluginConfigs
    /\ last.emitted = <<[type |-> "plugin:unregistered", name |-> last.name]>>

\* C8: when the cleanup called by unregister(n) returned a promise, the
\* plugin is not removed and plugin:unregistered is not published while that
\* promise is pending.
C8_AsyncCleanupAwaited ==
  ( /\ last.op = "unregister"
    /\ last.cleanups # <<>>
    /\ last.cleanups[1].kind = "async"
    /\ ~last.cleanups[1].threw
    /\ cleanupPending[last.name] > 0 ) =>
    /\ has(last.name)
    /\ last.emitted = <<>>

\* C9: unregister(n) of a name that is not registered throws nothing, invokes
\* no cleanup, and leaves the three maps unchanged.
C9_UnregisterUnknownIsNoOp ==
  [][ (last'.op = "unregister" /\ ~has(last'.name)) =>
        (~last'.threw /\ last'.cleanups = <<>> /\ MapsUnchanged) ]_vars

\* unregister was called again for a name it had just removed, while another
\* plugin with a cleanup is registered, enabled and configured
C9_Witness ==
  /\ last.op = "unregister"
  /\ last.prev.op = "unregister"
  /\ last.prev.name = last.name
  /\ ~last.prev.threw
  /\ ~last.threw
  /\ last.cleanups = <<>>
  /\ \E i \in 1..Len(plugins) : plugins[i].cleanup # "none"
  /\ enabledPlugins # {}
  /\ pluginConfigs # EmptyConfig

\* ------------------------------------------------------------------------
\* Properties of runEvent (checked under Spec)
\* ------------------------------------------------------------------------
\* the names at the positions of a sequence of records
NamesOf(seq) == { seq[i].name : i \in 1..Len(seq) }

\* C10: the keys of the map returned by runEvent are exactly the plugins
\* whose handler the call invoked, and these are exactly the plugins that
\* were registered with the event in runsOn when the call started and were
\* enabled when their turn came; every subscribed plugin gets its turn.
C10_ResultKeysAreThePluginsRun ==
  \A c \in CallIds :
    calls[c].status = "returned" =>
      LET rec == calls[c]
          subscribed == { rec.start[i].name : i \in
                            { j \in 1..Len(rec.start) :
                                rec.event \in rec.start[j].runsOn } }
          enabledAtTurn == { rec.turns[i].name : i \in
                               { j \in 1..Len(rec.turns) :
                                   rec.turns[j].enabled } }
      IN /\ DOMAIN rec.results = NamesOf(rec.invoked)
         /\ NamesOf(rec.turns) = subscribed
         /\ DOMAIN rec.results = subscribed \cap enabledAtTurn

\* a call returned a result for one plugin and skipped a subscribed plugin
\* that was disabled at its turn
C10_Witness ==
  \E c \in CallIds :
    /\ calls[c].status = "returned"
    /\ calls[c].results # EmptyConfig
    /\ \E i \in 1..Len(calls[c].turns) : ~calls[c].turns[i].enabled
    /\ Len(calls[c].start) = 2

\* ------------------------------------------------------------------------
\* the dependency graph a call saw when it started

\* position of a name in a sequence of plugins (0 when absent)
PosOf(seq, name) ==
  IF name \in NamesOf(seq)
  THEN CHOOSE i \in 1..Len(seq) : seq[i].name = name
  ELSE 0

\* the registered plugins a registered plugin lists in dependencies
DepsOf(start, name) ==
  IF name \in NamesOf(start)
  THEN LET d == start[PosOf(start, name)].dependencies
       IN { d[i] : i \in 1..Len(d) } \cap NamesOf(start)
  ELSE {}

RECURSIVE Closure(_, _)
Closure(start, S) ==
  LET T == S \cup UNION { DepsOf(start, n) : n \in S }
  IN IF T = S THEN S ELSE Closure(start, T)

\* the direct and transitive dependencies of a plugin
Needs(start, name) == Closure(start, DepsOf(start, name))

Cyclic(start) == \E n \in NamesOf(start) : n \in Needs(start, n)

Unrelated(start, x, y) ==
  x \notin Needs(start, y) /\ y \notin Needs(start, x)

\* an earlier registered plugin depends on the plugin, directly or not
PulledForward(start, y) ==
  \E z \in NamesOf(start) :
    PosOf(start, z) < PosOf(start, y) /\ y \in Needs(start, z)

IsTerminal(ev, name) ==
  ev.type \in {"plugin:completed", "plugin:error"} /\ ev.name = name

\* every dependency of a started plugin that was registered with the event
\* in runsOn when the call started had its turn earlier, and if it was
\* enabled at that turn its handler had settled before the plugin started
DependenciesSettleFirst(rec) ==
  \A k \in 1..Len(rec.emitted) :
    rec.emitted[k].type = "plugin:started" =>
      LET p == rec.emitted[k].name
      IN \A d \in DepsOf(rec.start, p) \ {p} :
           rec.event \in rec.start[PosOf(rec.start, d)].runsOn =>
             /\ PosOf(rec.turns, d) \in 1..(PosOf(rec.turns, p) - 1)
             /\ rec.turns[PosOf(rec.turns, d)].enabled =>
                  \E j \in 1..(k - 1) : IsTerminal(rec.emitted[j], d)

\* C11 (as stated): dependencies settle first, and two invoked plugins
\* unrelated by dependencies are invoked in the order of their registration.
C11_DependencyThenRegistrationOrder ==
  \A c \in DOMAIN calls :
    LET rec == calls[c]
    IN /\ DependenciesSettleFirst(rec)
       /\ \A a, b \in 1..Len(rec.invoked) :
            LET x == rec.invoked[a].name
                y == rec.invoked[b].name
            IN (Unrelated(rec.start, x, y)
                  /\ PosOf(rec.start, x) < PosOf(rec.start, y)) => a < b

\* C11 (amended): dependencies settle first, and a plugin that no earlier
\* registered plugin depends on, directly or transitively, is invoked after
\* every invoked plugin registered before it.
C11_DependencyOrder ==
  \A c \in DOMAIN calls :
    LET rec == calls[c]
    IN /\ DependenciesSettleFirst(rec)
       /\ \A a, b \in 1..Len(rec.invoked) :
            LET x == rec.invoked[a].name
                y == rec.invoked[b].name
            IN (~PulledForward(rec.start, y)
                  /\ PosOf(rec.start, x) < PosOf(rec.start, y)) => a < b

\* a call returned after it ran a dependency ahead of a dependent that was
\* registered before it, and ahead of an unrelated plugin registered before it
C11_Witness ==
  \E c \in DOMAIN calls :
    LET rec == calls[c]
    IN /\ rec.status = "returned"
       /\ Len(rec.invoked) = 3
       /\ \E a, b \in 1..3 :
            /\ a < b
            /\ rec.invoked[a].name \in DepsOf(rec.start, rec.invoked[b].name)
            /\ PosOf(rec.start, rec.invoked[b].name)
                 < PosOf(rec.start, rec.invoked[a].name)
       /\ \E a, b \in 1..3 :
            /\ a < b
            /\ Unrelated(rec.start, rec.invoked[a].name, rec.invoked[b].name)
            /\ PosOf(rec.start, rec.invoked[b].name)
                 < PosOf(rec.start, rec.invoked[a].name)

\* C12 (as stated): a call that started on a plugin map whose dependencies
\* contain a cycle does not fail, and when it has returned it has run every
\* plugin on the cycle that subscribes to the event and was enabled.
C12_CyclesTolerated ==
  \A c \in DOMAIN calls :
    LET rec == calls[c]
    IN Cyclic(rec.start) =>
         /\ rec.status # "rejected"
         /\ rec.status = "returned" =>
              \A n \in NamesOf(rec.start) :
                (/\ n \in Needs(rec.start, n)
                 /\ rec.event \in rec.start[PosOf(rec.start, n)].runsOn
                 /\ PosOf(rec.turns, n) > 0
                 /\ rec.turns[PosOf(rec.turns, n)].enabled)
                => n \in DOMAIN rec.results

\* C13: a handler that threw Error('X') left {success: FALSE, error: 'X'}
\* under its plugin's name and exactly one plugin:error (with 'X') and no
\* plugin:completed for it; the call went on past it, and when it has
\* returned every plugin of the run list had its turn and those enabled at
\* their turn were invoked; the call is never rejected by a handler.
C13_FaultIsolation ==
  \A c \in DOMAIN calls :
    LET rec == calls[c]
    IN \A k \in 1..Len(rec.settled) :
         rec.settled[k].outcome = "throw" =>
           LET n == rec.settled[k].name
               eventsOf(type) ==
                 { j \in 1..Len(rec.emitted) :
                     rec.emitted[j].type = type /\ rec.emitted[j].name = n }
           IN /\ rec.status \in {"awaiting", "returned"}
              /\ n \in DOMAIN rec.results
              /\ rec.results[n] = [success |-> FALSE, error |-> "X"]
              /\ Cardinality(eventsOf("plugin:error")) = 1
              /\ \A j \in eventsOf("plugin:error") : rec.emitted[j].error = "X"
              /\ eventsOf("plugin:completed") = {}
              /\ rec.idx > PosOf(rec.pluginsToRun, n)
              /\ rec.status = "returned" =>
                   \A i \in 1..Len(rec.pluginsToRun) :
                     LET m == rec.pluginsToRun[i].name
                     IN /\ PosOf(rec.turns, m) > 0
                        /\ rec.turns[PosOf(rec.turns, m)].enabled
                             => m \in NamesOf(rec.invoked)

\* a call returned after its first handler threw and a later one succeeded
C13_Witness ==
  \E c \in DOMAIN calls :
    /\ calls[c].status = "returned"
    /\ Len(calls[c].settled) >= 2
    /\ calls[c].settled[1].outcome = "throw"
    /\ calls[c].settled[2].outcome = "ok"
    /\ calls[c].results[calls[c].settled[2].name].success

\* C14: in one call the events alternate plugin:started / terminal event,
\* the i-th invocation happened right after the i-th plugin:started, the
\* i-th terminal event is the one of the i-th invoked plugin and matches how
\* its handler settled, and the handlers invoked exceed the handlers settled
\* by one exactly while the call awaits a handler, by none otherwise.
C14_OneAtATimeWellNested ==
  \A c \in DOMAIN calls :
    LET rec == calls[c]
        ni == Len(rec.invoked)
        ns == Len(rec.settled)
    IN /\ ni - ns = IF rec.status = "awaiting" THEN 1 ELSE 0
       /\ Len(rec.emitted) = ni + ns
       /\ \A i \in 1..ni :
            /\ rec.invoked[i].at = 2 * i - 1
            /\ rec.emitted[2 * i - 1].type = "plugin:started"
            /\ rec.emitted[2 * i - 1].name = rec.invoked[i].name
       /\ \A i \in 1..ns :
            /\ rec.settled[i].name = rec.invoked[i].name
            /\ rec.emitted[2 * i].name = rec.invoked[i].name
            /\ rec.emitted[2 * i].type =
                 IF rec.settled[i].outcome = "ok" THEN "plugin:completed"
                 ELSE "plugin:error"

\* a call awaits its third handler after one handler succeeded and one threw
C14_Witness ==
  \E c \in DOMAIN calls :
    /\ calls[c].status = "awaiting"
    /\ Len(calls[c].invoked) = 3
    /\ Len(calls[c].settled) = 2
    /\ calls[c].settled[1].outcome # calls[c].settled[2].outcome

\* the plugins registered with the call's event in runsOn when it started
SubscribedAtStart(rec) ==
  { rec.start[j].name : j \in { i \in 1..Len(rec.start) :
                                  rec.event \in rec.start[i].runsOn } }

\* C15 (as stated): what a call dispatches to is decided when it starts:
\* its result map holds the plugins that were registered with the event in
\* runsOn and enabled at that moment, whatever was registered or
\* unregistered while it ran.  (Under SpecOrder every manifest is enabled on
\* registration and nothing disables, so the enabled plugins are the
\* registered ones.)
C15_RunSetFixedAtStart ==
  \A c \in DOMAIN calls :
    calls[c].status = "returned" =>
      DOMAIN calls[c].results = SubscribedAtStart(calls[c])

\* C15 (amended): the run list is decided when the call starts and a
\* register never adds to it: every handler invoked belongs to a plugin
\* object that was registered with the event in runsOn at the start, and
\* the turns are those of the plugins subscribed at the start.  A listed
\* plugin is run exactly if its name is enabled when its turn comes, so a
\* plugin found unregistered at its turn is dropped from the event.
C15_RunListFixedMembersRechecked ==
  \A c \in DOMAIN calls :
    LET rec == calls[c]
    IN rec.status \in {"awaiting", "returned"} =>
         /\ \A i \in 1..Len(rec.invoked) :
              \E j \in 1..Len(rec.start) :
                /\ rec.start[j].id = rec.invoked[i].id
                /\ rec.start[j].name = rec.invoked[i].name
                /\ rec.event \in rec.start[j].runsOn
         /\ NamesOf(rec.turns) \subseteq SubscribedAtStart(rec)
         /\ rec.status = "returned" =>
              NamesOf(rec.turns) = SubscribedAtStart(rec)
         /\ \A i \in 1..Len(rec.turns) :
              /\ rec.turns[i].enabled <=>
                   rec.turns[i].name \in NamesOf(rec.invoked)
              /\ ~rec.turns[i].registered =>
                   rec.turns[i].name \notin NamesOf(rec.invoked)

\* a call returned after it skipped a plugin that was unregistered while an
\* earlier handler ran, and left out a subscribed plugin registered meanwhile
C15_Witness ==
  \E c \in DOMAIN calls :
    LET rec == calls[c]
    IN /\ rec.status = "returned"
       /\ rec.results # EmptyConfig
       /\ \E i \in 1..Len(rec.turns) : ~rec.turns[i].registered
       /\ \E i \in 1..Len(plugins) :
            /\ plugins[i].name \notin NamesOf(rec.start)
            /\ rec.event \in plugins[i].runsOn

\* the stuck call has invoked at most one handler, which has not settled,
\* and is still awaiting it
HungBlocked ==
  LET rec == calls[Hung]
  IN /\ Len(rec.invoked) <= 1
     /\ rec.settled = <<>>
     /\ rec.results = EmptyConfig
     /\ Len(rec.invoked) = 1 => rec.status = "awaiting"

\* the other call has returned a map with every plugin of its run list that
\* was enabled at its turn
OtherReturned ==
  LET rec == calls[Other]
  IN /\ rec.status = "returned"
     /\ NamesOf(rec.turns) = SubscribedAtStart(rec)
     /\ DOMAIN rec.results =
          { rec.turns[i].name : i \in { j \in 1..Len(rec.turns) :
                                          rec.turns[j].enabled } }

\* C16: a call whose handler never settles invokes no later plugin and
\* never returns, and while it is stuck the call of another caller still
\* runs all of its eligible plugins and returns its result map.
C16_HangBlocksOnlyItsOwnCall ==
  /\ []HungBlocked
  /\ (calls[Hung].status = "awaiting")
       ~> (calls[Hung].status = "awaiting" /\ OtherReturned)

\* the other call returned three results while the first call is still
\* awaiting the first of the three handlers of its own run list
C16_Witness ==
  /\ calls[Hung].status = "awaiting"
  /\ Len(calls[Hung].pluginsToRun) = 3
  /\ Len(calls[Hung].invoked) = 1
  /\ calls[Other].status = "returned"
  /\ Cardinality(DOMAIN calls[Other].results) = 3
  /\ calls[Other].event = calls[Hung].event

\* C17: a call that published events was not aborted, and for each event it
\* published the listener calls made were exactly the listeners subscribed
\* to that event, each once, in the order of the listener set, whether or
\* not one of them threw; no other listener was called.
C17_ListenerIsolation ==
  last.emitted # <<>> =>
    /\ ~last.threw
    /\ \A k \in 1..Len(last.emitted) :
         LET event == last.emitted[k]
             got == SelectSeq(last.delivered, LAMBDA d : d.data = event)
         IN /\ Len(got) = Len(listeners[event.type])
            /\ \A i \in 1..Len(got) :
                 got[i].handler = listeners[event.type][i]
    /\ \A i \in 1..Len(last.delivered) :
         \E k \in 1..Len(last.emitted) :
           last.delivered[i].data = last.emitted[k]

\* register published plugin:registered to a listener that threw and then
\* to a second listener, and returned normally
C17_Witness ==
  /\ last.op = "register"
  /\ ~last.threw
  /\ Len(last.delivered) = 2
  /\ last.delivered[1].threw
  /\ ~last.delivered[2].threw
  /\ listeners["plugin:registered"] = <<"h2", "h1">>

\* the effect of a closure on the listener sets: its handler leaves the set
\* of its event, every other handler and every other event stay as they are
ClosureRemovesItsHandler ==
  /\ \A i \in 1..Len(listeners'[last'.event]) :
       listeners'[last'.event][i] # last'.handler
  /\ listeners'[last'.event] =
       SelectSeq(listeners[last'.event], LAMBDA h : h # last'.handler)
  /\ \A e \in PluginManagerEvents \ {last'.event} :
       listeners'[e] = listeners[e]

\* C18 (as stated): a call of a closure removes its handler and nothing
\* else, calling a closure that was called before changes nothing, and on
\* itself calls no listener.
C18_UnsubscribeAnyRepeatHarmless ==
  [][ /\ last'.op = "off" =>
          /\ ClosureRemovesItsHandler
          /\ last'.closure.called => listeners' = listeners
      /\ last'.op = "on" => last'.delivered = <<>>
    ]_vars

\* C18 (amended): a call of a closure removes its handler and nothing else,
\* calling a closure that was called before changes nothing unless its
\* handler was subscribed to its event again since, and on itself calls no
\* listener.
C18_UnsubscribeRepeatHarmlessUnlessResubscribed ==
  [][ /\ last'.op = "off" =>
          /\ ClosureRemovesItsHandler
          /\ (last'.closure.called /\ ~last'.closure.stale)
               => listeners' = listeners
      /\ last'.op = "on" => last'.delivered = <<>>
    ]_vars

\* a closure was called a second time, with nothing subscribed in between,
\* while another handler listens to the same event
C18_Witness ==
  /\ last.op = "off"
  /\ last.closure.called
  /\ ~last.closure.stale
  /\ last.prev.op = "off"
  /\ listeners[last.event] # <<>>

\* the flag is absent, true, or a predicate that is true for the entity
FlagAllows(flag, entity) ==
  \/ flag \in {"absent", "true"}
  \/ flag = "isTable" /\ entity.type = "table"
  \/ flag = "onPage1" /\ entity.pageNumber = 1

\* the commands, owner attached, that the claim says are returned
CommandsDue(entity) ==
  UNION { { cmd @@ ("pluginName" :> plugins[i].name) :
              cmd \in { c \in { commandsOf(plugins[i])[j] :
                                   j \in 1..Len(commandsOf(plugins[i])) } :
                          /\ "all" \in c.contexts
                               \/ entity.type \in c.contexts
                          /\ FlagAllows(c.enabled, entity)
                          /\ FlagAllows(c.visible, entity) } } :
          i \in { k \in 1..Len(plugins) :
                    plugins[k].name \in enabledPlugins } }

\* C19: a lookup returns, each once, exactly the commands (owner attached)
\* of the enabled plugins whose contexts contain 'all' or the entity's type
\* and whose enabled and visible flags are absent, true, or a predicate
\* that is true for the entity.
C19_CommandsOfferedIffEligible ==
  [][ (last' # last /\ last'.op = "getCommandsForEntity") =>
        /\ { last'.ret[i] : i \in 1..Len(last'.ret) }
             = CommandsDue(last'.entity)
        /\ Len(last'.ret) = Cardinality(CommandsDue(last'.entity))
    ]_vars

\* a lookup for a figure on page 1 returned one command of alpha and two of
\* beta, and left out the commands of alpha whose context, enabled flag or
\* visible flag excludes the entity
C19_Witness ==
  /\ last.op = "getCommandsForEntity"
  /\ last.entity.id = "n3"
  /\ { [p |-> last.ret[i].pluginName, c |-> last.ret[i].id] :
         i \in 1..Len(last.ret) }
       = { [p |-> "alpha", c |-> "open"], [p |-> "beta", c |-> "open"],
           [p |-> "beta", c |-> "page"] }
  /\ enabledPlugins = {"alpha", "beta"}
  /\ Len(plugins) = 2

C21_UnknownTargetIsNotFound ==
  [][ \A x \in DOMAIN executions :
        LET rec == executions'[x]
        IN (/\ executions[x].status = "idle"
            /\ rec.status # "idle"
            /\ \/ rec.pluginName \notin NamesOf(plugins)
               \/ \A i \in 1..Len(plugins) :
                    plugins[i].name = rec.pluginName =>
                      \A j \in 1..Len(commandsOf(plugins[i])) :
                        commandsOf(plugins[i])[j].id # rec.commandId)
           => /\ rec.status = "returned"
              /\ rec.result = [success |-> FALSE, error |-> "not found"]
              /\ rec.invoked = <<>>
              /\ rec.emitted = <<>>
    ]_vars

\* executeCommand returned 'not found' for an id that the registered and
\* enabled plugin alpha, which has commands, does not own
C21_Witness ==
  \E x \in DOMAIN executions :
    /\ executions[x].status = "returned"
    /\ executions[x].pluginName = "alpha"
    /\ executions[x].commandId = "nope"
    /\ executions[x].result = [success |-> FALSE, error |-> "not found"]
    /\ "alpha" \in enabledPlugins
    /\ \E i \in 1..Len(plugins) :
         plugins[i].name = "alpha" /\ commandsOf(plugins[i]) # <<>>

\* C22: a call whose command handler threw Error('X') has returned (it is
\* not rejected) {success: FALSE, error: 'X'} and has published exactly
\* one command:error, for its plugin and command, and no command:completed.
C22_CommandFaultIsolation ==
  \A x \in DOMAIN executions :
    LET rec == executions[x]
        eventsOf(type) ==
          { j \in 1..Len(rec.emitted) : rec.emitted[j].type = type }
    IN (rec.settled # <<>> /\ rec.settled[1] = "throw") =>
         /\ rec.status = "returned"
         /\ rec.result = [success |-> FALSE, error |-> "X"]
         /\ Cardinality(eventsOf("command:error")) = 1
         /\ \A j \in eventsOf("command:error") :
              /\ rec.emitted[j].pluginName = rec.pluginName
              /\ rec.emitted[j].commandId = rec.commandId
              /\ rec.emitted[j].error = "X"
         /\ eventsOf("command:completed") = {}

\* an executeCommand of alpha's export returned after the handler threw
C22_Witness ==
  \E x \in DOMAIN executions :
    /\ executions[x].status = "returned"
    /\ executions[x].settled = <<"throw">>
    /\ executions[x].pluginName = "alpha"
    /\ executions[x].commandId = "export"

\* C23: a call that reaches the handler published command:started (plugin
\* name, command id, entity id) first and invoked the handler once, right
\* after it, with the configuration the plugin had at that moment; while
\* the handler is awaited nothing more is published, and once it settled
\* exactly one terminal event, matching how it settled, follows.  A call
\* to a registered, enabled plugin that owns the command does reach it.
C23_CommandInstrumented ==
  [][ \A x \in DOMAIN executions :
        LET rec == executions'[x]
        IN /\ Len(rec.invoked) <= 1
           /\ (/\ executions[x].status = "idle"
               /\ rec.status # "idle"
               /\ rec.pluginName \in NamesOf(plugins)
               /\ rec.pluginName \in enabledPlugins
               /\ \E i \in 1..Len(plugins) :
                    /\ plugins[i].name = rec.pluginName
                    /\ \E j \in 1..Len(commandsOf(plugins[i])) :
                         commandsOf(plugins[i])[j].id = rec.commandId)
              => /\ rec.status = "awaiting"
                 /\ Len(rec.invoked) = 1
                 /\ rec.invoked[1].config =
                      IF rec.pluginName \in DOMAIN pluginConfigs
                      THEN pluginConfigs[rec.pluginName] ELSE EmptyConfig
           /\ Len(rec.invoked) = 1 =>
                /\ rec.emitted[1] = [type |-> "command:started",
                                     pluginName |-> rec.pluginName,
                                     commandId |-> rec.commandId,
                                     entityId |-> rec.entity.id]
                /\ rec.invoked[1].at = 1
                /\ rec.invoked[1].pluginName = rec.pluginName
                /\ rec.invoked[1].commandId = rec.commandId
                /\ rec.invoked[1].entity = rec.entity
                /\ rec.status = "awaiting" => Len(rec.emitted) = 1
                /\ rec.status = "returned" =>
                     /\ Len(rec.emitted) = 2
                     /\ Len(rec.settled) = 1
                     /\ rec.emitted[2].type =
                          IF rec.settled[1] = "ok" THEN "command:completed"
                          ELSE "command:error"
                     /\ rec.emitted[2].pluginName = rec.pluginName
                     /\ rec.emitted[2].commandId = rec.commandId
    ]_vars

\* a command handler of alpha was invoked with a configuration merged from
\* two setConfig calls, and has settled
C23_Witness ==
  \E x \in DOMAIN executions :
    /\ executions[x].status = "returned"
    /\ executions[x].pluginName = "alpha"
    /\ Len(executions[x].invoked) = 1
    /\ DOMAIN executions[x].invoked[1].config = {"a", "b"}
    /\ executions[x].settled = <<"ok">>

\* the unit squares of the plane that lie in a box: none for a degenerate
\* or an inverted box
Cells(box) ==
  { c \in (0..MaxCoord) \X (0..MaxCoord) :
      /\ box.x1 <= c[1] /\ c[1] + 1 <= box.x2
      /\ box.y1 <= c[2] /\ c[2] + 1 <= box.y2 }

\* area of the intersection of a and b over the area of a, as a pair
\* <<numerator, denominator>>; 0 when a has no area
AreaRatio(a, b) ==
  IF Cells(a) = {} THEN <<0, 1>>
  ELSE <<Cardinality(Cells(a) \cap Cells(b)), Cardinality(Cells(a))>>

\* C27: overlapRatio(a, b) is the area of the intersection of a and b
\* divided by the area of a; it is 0 when the boxes share no area or a has
\* none, and lies in [0, 1]; bboxContains(outer, inner, t) holds exactly
\* when overlapRatio(inner, outer) >= t.
C27_OverlapRelativeToFirstBox ==
  /\ overlap.stage = "overlapRatio" =>
       LET r == AreaRatio(overlap.a, overlap.b)
       IN /\ overlap.ratio[2] > 0
          /\ overlap.ratio[1] * r[2] = r[1] * overlap.ratio[2]
          /\ (Cells(overlap.a) \cap Cells(overlap.b) = {}) =>
               overlap.ratio[1] = 0
          /\ 0 <= overlap.ratio[1]
          /\ overlap.ratio[1] <= overlap.ratio[2]
  /\ overlap.stage = "bboxContains" =>
       LET r == AreaRatio(overlap.b, overlap.a)
           t == overlap.threshold
       IN overlap.contains <=> (r[1] * t[2] >= t[1] * r[2])

\* overlapRatio(a, b) = 1/2 where overlapRatio(b, a) would be 1: b is the
\* half of a
C27_Witness ==
  /\ overlap.stage = "overlapRatio"
  /\ overlap.ratio = <<1, 2>>
  /\ Cells(overlap.b) # {}
  /\ Cells(overlap.b) \subseteq Cells(overlap.a)

\* a lies in b, edges included
Inside(a, b) ==
  /\ b.x1 <= a.x1 /\ a.x2 <= b.x2
  /\ b.y1 <= a.y1 /\ a.y2 <= b.y2

\* C28 as stated: for every a inside b, overlapRatio(a, b) = 1.
C28_InsideIsOne ==
  (overlap.stage = "overlapRatio" /\ Inside(overlap.a, overlap.b)) =>
    overlap.ratio = <<1, 1>>

\* C28: for every a of positive width and height inside b,
\* overlapRatio(a, b) = 1.
C28_InsideWithAreaIsOne ==
  (/\ overlap.stage = "overlapRatio"
   /\ Inside(overlap.a, overlap.b)
   /\ overlap.a.x1 < overlap.a.x2
   /\ overlap.a.y1 < overlap.a.y2) =>
    overlap.ratio = <<1, 1>>

\* overlapRatio(a, b) = 1 for a box a that is a proper part of b
C28_Witness ==
  /\ overlap.stage = "overlapRatio"
  /\ Inside(overlap.a, overlap.b)
  /\ overlap.a.x1 < overlap.a.x2
  /\ overlap.a.y1 < overlap.a.y2
  /\ overlap.a # overlap.b
  /\ overlap.ratio = <<1, 1>>

\* twice the centre of a block, from its bbox
Centre2(block) ==
  <<block.bbox.x1 + block.bbox.x2, block.bbox.y1 + block.bbox.y2>>

\* the run was given the scenario's page and configuration: six blocks
\* whose centres are the grid of x 20, 80 and y 10, 50, 90, rowTolerance
\* 15, columnTolerance 20, minRows 2 and minColumns 2
GridScenario ==
  /\ Len(detection.blocks) = 6
  /\ \A x \in {20, 80}, y \in {10, 50, 90} :
       \E i \in 1..6 : Centre2(detection.blocks[i]) = <<2 * x, 2 * y>>
  /\ detection.config.rowTolerance = <<15, 1>>
  /\ detection.config.columnTolerance = <<20, 1>>
  /\ detection.config.minRows = 2
  /\ detection.config.minColumns = 2

\* one table of 3 rows and 2 columns, every cell bound to a block,
\* confidence at least 0.9
GridReported ==
  /\ Len(detection.tables) = 1
  /\ detection.tables[1].rowCount = 3
  /\ detection.tables[1].columnCount = 2
  /\ Len(detection.tables[1].grid) = 3
  /\ \A r \in 1..3 :
       /\ Len(detection.tables[1].grid[r]) = 2
       /\ \A c \in 1..2 : detection.tables[1].grid[r][c].blockId # "null"
  /\ 9 * detection.tables[1].confidence[2]
       <= 10 * detection.tables[1].confidence[1]

\* all blocks of the page have one positive width and one positive height
SameSize ==
  \A i, j \in 1..Len(detection.blocks) :
    LET a == detection.blocks[i].bbox
        b == detection.blocks[j].bbox
    IN /\ a.x2 - a.x1 = b.x2 - b.x1
       /\ a.y2 - a.y1 = b.y2 - b.y1
       /\ a.x2 - a.x1 > 0
       /\ a.y2 - a.y1 > 0

\* C24 as stated: whatever the sizes of the six blocks, the scenario's
\* page yields one 3 x 2 table with all cells filled and confidence of at
\* least 0.9.
C24_GridDetected ==
  (detection.stage = "returned" /\ GridScenario) => GridReported

\* C24: the scenario's page, with six blocks of one positive width and
\* height and a confidenceThreshold of 0.7 or 0.9, yields exactly one
\* table with rowCount 3, columnCount 2, all six cells bound to a block
\* and confidence of at least 0.9.
C24_UniformGridDetected ==
  (detection.stage = "returned" /\ GridScenario /\ SameSize) => GridReported

\* the scenario's page of equal blocks, given in reverse reading order
\* under a threshold of 0.9, has been reported as a table of confidence 1
C24_Witness ==
  /\ detection.stage = "returned"
  /\ GridScenario
  /\ SameSize
  /\ detection.blocks[1].id = "b9"
  /\ detection.config.confidenceThreshold = <<9, 10>>
  /\ Len(detection.tables) = 1
  /\ detection.tables[1].confidence = <<1, 1>>

\* no two blocks of the page have vertical centres within rowTolerance
ScatteredRows ==
  \A i, j \in 1..Len(detection.blocks) :
    i # j =>
      abs(Centre2(detection.blocks[i])[2] - Centre2(detection.blocks[j])[2])
          * detection.config.rowTolerance[2]
        > 2 * detection.config.rowTolerance[1]

\* no two blocks of the page have horizontal centres within columnTolerance
ScatteredColumns ==
  \A i, j \in 1..Len(detection.blocks) :
    i # j =>
      abs(Centre2(detection.blocks[i])[1] - Centre2(detection.blocks[j])[1])
          * detection.config.columnTolerance[2]
        > 2 * detection.config.columnTolerance[1]

\* C25 as stated: a page of 4 blocks, no two of them within rowTolerance
\* of each other vertically, yields no table.
C25_ScatteredRowsNoTable ==
  (/\ detection.stage = "returned"
   /\ Len(detection.blocks) = 4
   /\ ScatteredRows) => detection.tables = <<>>

\* C25: a page of 4 blocks, no two of them within rowTolerance of each
\* other vertically nor within columnTolerance horizontally, yields no
\* table when minRows is at least 2: each block is a row of its own and
\* no column is supported by two rows.
C25_ScatteredNoTable ==
  (/\ detection.stage = "returned"
   /\ Len(detection.blocks) = 4
   /\ ScatteredRows
   /\ ScatteredColumns
   /\ detection.config.minRows >= 2) =>
    /\ detection.tables = <<>>
    /\ Len(clusterIntoRows([i \in 1..4 |-> clusterBlock(detection.blocks[i])],
                           detection.config.rowTolerance)) = 4

\* four equal blocks scattered both ways, under the default configuration,
\* have yielded no table
C25_Witness ==
  /\ detection.stage = "returned"
  /\ Len(detection.blocks) = 4
  /\ ScatteredRows
  /\ ScatteredColumns
  /\ SameSize
  /\ detection.config = DetectorConfig(15, 20, 2, 2, Frac(7, 10))
  /\ detection.tables = <<>>

\* C26: a run reports at most one table, and one only if the page has at
\* least minRows * minColumns blocks, at least minRows row clusters, at
\* least minColumns surviving columns and a confidence of at least
\* confidenceThreshold; the table's rowCount and columnCount are the
\* dimensions of its grid and its confidence lies in [0, 1].
C26_OneTableWhenAllThresholdsMet ==
  detection.stage = "returned" =>
    LET config == detection.config
        blocks == [i \in 1..Len(detection.blocks) |->
                     clusterBlock(detection.blocks[i])]
        rows == clusterIntoRows(blocks, config.rowTolerance)
        columns == detectColumns(rows, config.columnTolerance, config.minRows)
        confidence ==
          calculateConfidence(buildGrid(rows, columns, config.columnTolerance))
    IN /\ Len(detection.tables) <= 1
       /\ \A t \in 1..Len(detection.tables) :
            LET table == detection.tables[t]
            IN /\ Len(blocks) >= config.minRows * config.minColumns
               /\ Len(rows) >= config.minRows
               /\ Len(columns) >= config.minColumns
               /\ config.confidenceThreshold[1] * confidence[2]
                    <= confidence[1] * config.confidenceThreshold[2]
               /\ table.confidence = confidence
               /\ table.rowCount = Len(table.grid)
               /\ \A r \in 1..Len(table.grid) :
                    table.columnCount = Len(table.grid[r])
               /\ 0 <= table.confidence[1]
               /\ table.confidence[1] <= table.confidence[2]

\* a table with an empty cell and a confidence strictly between the
\* threshold and 1 has been reported
C26_Witness ==
  /\ detection.stage = "returned"
  /\ Len(detection.tables) = 1
  /\ detection.tables[1].confidence[1] < detection.tables[1].confidence[2]
  /\ \E r \in 1..Len(detection.tables[1].grid) :
       \E c \in 1..Len(detection.tables[1].grid[r]) :
         detection.tables[1].grid[r][c].blockId = "null"

\* the call c starts in this step: runEvent runs up to its first await
Starts(c) == calls[c].status = "idle" /\ calls'[c].status # "idle"

\* a dependency that, for the event, is itself not to be invoked
Unregistered(dep) == dep \notin NamesOf(plugins)

Unsubscribed(dep, event) ==
  \E i \in 1..Len(plugins) :
    plugins[i].name = dep /\ event \notin plugins[i].runsOn

DisabledNow(dep) == dep \in NamesOf(plugins) /\ dep \notin enabledPlugins

\* the names invoked by a call are in the order of its run list
InvokedInListOrder(rec) ==
  \A i, j \in 1..Len(rec.invoked) :
    i < j => PosOf(rec.pluginsToRun, rec.invoked[i].name)
               < PosOf(rec.pluginsToRun, rec.invoked[j].name)

\* C29: when runEvent is called, every registered, enabled plugin P that
\* subscribes to the event and has a dependency that is disabled, not
\* registered or not subscribed to the event gets its turn in the call
\* (the call is not rejected and P is in its run list); a dependency that
\* is not registered or not subscribed has no turn; and the plugins that
\* are invoked, with some disabled or not, keep the order of the run list.
C29_DependenciesOnlyOrder ==
  [][ \A c \in DOMAIN calls :
        LET rec == calls'[c]
        IN /\ rec.status \notin {"idle", "rejected"} => InvokedInListOrder(rec)
           /\ Starts(c) =>
                \A i \in 1..Len(plugins) :
                  LET P == plugins[i]
                  IN \A d \in 1..Len(P.dependencies) :
                       LET dep == P.dependencies[d]
                       IN (/\ P.name \in enabledPlugins
                           /\ rec.event \in P.runsOn
                           /\ \/ DisabledNow(dep)
                              \/ Unregistered(dep)
                              \/ Unsubscribed(dep, rec.event))
                          => /\ rec.status # "rejected"
                             /\ P.name \in NamesOf(rec.pluginsToRun)
                             /\ (Unregistered(dep)
                                 \/ Unsubscribed(dep, rec.event))
                                => dep \notin NamesOf(rec.pluginsToRun)
    ]_vars

\* C30: in every step of a runEvent call, each plugin whose turn comes in
\* that step (the plugins of the run list are taken in order) is invoked
\* exactly if it is enabled at that moment, and is then handed the
\* configuration the manager holds for it at that moment ({} if none):
\* what the enabled set and the configurations were when the call started
\* plays no part.
C30_ReadAtOwnTurn ==
  [][ \A c \in DOMAIN calls :
        LET old == calls[c]
            rec == calls'[c]
            turnsBefore == IF old.status = "idle" THEN 0 ELSE Len(old.turns)
            invokedBefore == IF old.status = "idle" THEN 0
                             ELSE Len(old.invoked)
        IN rec.status \in {"awaiting", "returned"} =>
             \A t \in (turnsBefore + 1)..Len(rec.turns) :
               LET name == rec.turns[t].name
                   now == { k \in (invokedBefore + 1)..Len(rec.invoked) :
                              rec.invoked[k].name = name }
               IN /\ name = rec.pluginsToRun[t].name
                  /\ (now # {}) <=> (name \in enabledPlugins)
                  /\ Cardinality(now) <= 1
                  /\ \A k \in now :
                       rec.invoked[k].config =
                         IF name \in DOMAIN pluginConfigs
                         THEN pluginConfigs[name] ELSE EmptyConfig
    ]_vars

\* the second plugin of a call was disabled when the call started, was
\* enabled and reconfigured while the first plugin's handler was awaited,
\* and has been invoked with the new configuration
C30_Witness ==
  \E c \in DOMAIN calls :
    /\ calls[c].status \in {"awaiting", "returned"}
    /\ Len(calls[c].invoked) = 2
    /\ Len(calls[c].turns) = 2
    /\ LET Q == calls[c].invoked[2].name
       IN /\ Q \notin calls[c].enabledAtStart
          /\ Q \in DOMAIN calls[c].configsAtStart
          /\ calls[c].invoked[2].config # calls[c].configsAtStart[Q]

\* ------------------------------------------------------------------------
\* Further properties of the registry (checked under SpecRegistry)
\* ------------------------------------------------------------------------

\* C31: after every call, failing ones included, each enabled name and
\* each key of the configuration map is a registered plugin; and a name
\* that becomes registered in a step (for the first time or again) is
\* enabled exactly if its manifest says defaultEnabled and has exactly the
\* defaults of its schema as configuration (no entry without a schema).
C31_RegistryConsistent ==
  [][ /\ enabledPlugins' \subseteq NamesOf(plugins')
      /\ DOMAIN pluginConfigs' \subseteq NamesOf(plugins')
      /\ \A i \in 1..Len(plugins') :
           LET m == plugins'[i]
           IN m.name \notin NamesOf(plugins) =>
                /\ (m.name \in enabledPlugins') <=> m.defaultEnabled
                /\ IF m.hasSchema
                   THEN /\ m.name \in DOMAIN pluginConfigs'
                        /\ pluginConfigs'[m.name] = m.schemaDefaults
                   ELSE m.name \notin DOMAIN pluginConfigs'
    ]_vars

\* alpha has just been registered again, right after its unregistration,
\* with a manifest that is disabled by default and has no schema: it is
\* neither enabled nor configured
C31_Witness ==
  /\ last.op = "register" /\ ~last.threw
  /\ last.name = "alpha" /\ last.id = 2
  /\ last.prev.op = "unregister" /\ ~last.prev.threw
  /\ last.prev.name = "alpha"
  /\ "alpha" \notin enabledPlugins
  /\ "alpha" \notin DOMAIN pluginConfigs

\* ------------------------------------------------------------------------
\* Further properties of runEvent (checked under SpecOrder)
\* ------------------------------------------------------------------------

\* C32: in a runEvent call every plugin name occurs at most once in the
\* run list, and no name is invoked more than once.
C32_AtMostOnce ==
  \A c \in DOMAIN calls :
    LET rec == calls[c]
    IN rec.status # "idle" =>
         /\ \A i, j \in 1..Len(rec.pluginsToRun) :
              rec.pluginsToRun[i].name = rec.pluginsToRun[j].name => i = j
         /\ \A i, j \in 1..Len(rec.invoked) :
              rec.invoked[i].name = rec.invoked[j].name => i = j

\* a call on the diamond (gamma needs alpha and beta, beta needs alpha, all
\* three registered, gamma first) has returned after three invocations,
\* alpha's first
C32_Witness ==
  \E c \in DOMAIN calls :
    /\ calls[c].status = "returned"
    /\ Len(calls[c].start) = 3
    /\ calls[c].start[1].id = 16
    /\ \E i \in 1..3 : calls[c].start[i].id = 13
    /\ Len(calls[c].invoked) = 3
    /\ calls[c].invoked[1].name = "alpha"

\* ------------------------------------------------------------------------
\* Further properties of the registry (checked under SpecRegistry)

\* C33: every plugin:enabled, plugin:disabled, plugin:configChanged and
\* plugin:unregistered event that a call publishes names a plugin that was
\* registered when the call was made; so disable(n) and unregister(n) on
\* a name that is not registered publish nothing.
C33_EventsNameRegisteredPlugins ==
  [][ last' # last =>
        \A i \in 1..Len(last'.emitted) :
          last'.emitted[i].type \in
              {"plugin:enabled", "plugin:disabled", "plugin:configChanged",
               "plugin:unregistered"}
            => last'.emitted[i].name \in NamesOf(plugins)
    ]_vars

\* ------------------------------------------------------------------------
\* Properties of the stages of table detection (checked under SpecStages)
\* ------------------------------------------------------------------------
\* the arithmetic mean of a non-empty sequence of numbers
RECURSIVE Total(_)
Total(numbers) ==
  IF Len(numbers) = 0 THEN Num(0)
  ELSE QAdd(numbers[1], Total(Tail(numbers)))

Mean(numbers) == QDiv(Total(numbers), Num(Len(numbers)))

YCentres(blocks) == [k \in 1..Len(blocks) |-> blocks[k].yCenter]

\* where the block with this id was put: the pairs <<row, place in row>>
PlacesOf(id) ==
  { rk \in (1..Len(detection.rows)) \X (1..Len(detection.blocks)) :
      /\ rk[2] <= Len(detection.rows[rk[1]].blocks)
      /\ detection.rows[rk[1]].blocks[rk[2]].id = id }

Within(a, b, tolerance) == QLe(QAbs(QSub(a, b)), tolerance)

\* C34: row clustering partitions the blocks of the page: every block is in
\* exactly one row and a row holds blocks of the page only; the rows come
\* in ascending order of vertical centre; a block joined the row it is in
\* if and only if its vertical centre was within rowTolerance of the mean
\* of the blocks already in the row, so the first block of a later row was
\* farther than that from the mean of the row before it; and the yCenter of
\* a row is the mean of the vertical centres of its members.
C34_RowsPartitionByRunningMean ==
  detection.stage \in {"rows", "columns", "grid"} =>
    LET rows == detection.rows
        tolerance == detection.config.rowTolerance
    IN /\ \A i \in 1..Len(detection.blocks) :
            Cardinality(PlacesOf(detection.blocks[i].id)) = 1
       /\ \A r \in 1..Len(rows) :
            /\ Len(rows[r].blocks) >= 1
            /\ \A k \in 1..Len(rows[r].blocks) :
                 \E i \in 1..Len(detection.blocks) :
                   detection.blocks[i] = rows[r].blocks[k]
            /\ rows[r].yCenter = Mean(YCentres(rows[r].blocks))
            /\ \A k \in 2..Len(rows[r].blocks) :
                 /\ QLe(rows[r].blocks[k - 1].yCenter,
                        rows[r].blocks[k].yCenter)
                 /\ Within(rows[r].blocks[k].yCenter,
                           Mean(YCentres(SubSeq(rows[r].blocks, 1, k - 1))),
                           tolerance)
            /\ r > 1 =>
                 /\ QLt(rows[r - 1].yCenter, rows[r].yCenter)
                 /\ QLe(rows[r - 1].blocks[Len(rows[r - 1].blocks)].yCenter,
                        rows[r].blocks[1].yCenter)
                 /\ ~Within(rows[r].blocks[1].yCenter, rows[r - 1].yCenter,
                            tolerance)

\* a page given bottom-up whose blocks at y 10 and y 20 share the first
\* row, of mean 15, followed by a second row
C34_Witness ==
  /\ detection.stage = "rows"
  /\ Len(detection.rows) >= 2
  /\ Len(detection.rows[1].blocks) >= 2
  /\ detection.rows[1].yCenter = Num(15)
  /\ QLt(detection.blocks[2].yCenter, detection.blocks[1].yCenter)

\* the row that the block with this id was put in
RowOf(id) == (CHOOSE rk \in PlacesOf(id) : TRUE)[1]

\* two blocks of the page whose vertical centres differ by at most the row
\* tolerance, the first not above the second, in different rows
SplitPair(a, b) ==
  /\ QLe(a.yCenter, b.yCenter)
  /\ Within(a.yCenter, b.yCenter, detection.config.rowTolerance)
  /\ RowOf(a.id) # RowOf(b.id)

Supported ==
  { k \in 1..Len(detection.clusters) :
      Cardinality(detection.clusters[k].rowSet) >= detection.config.minRows }

\* C36: column detection keeps a true running mean: the position of a
\* column cluster is the arithmetic mean of the horizontal centres merged
\* into it; and the columns returned are the positions of the clusters to
\* which at least minRows distinct rows contributed, in ascending order.
C36_ColumnsKeepRunningMean ==
  detection.stage \in {"columns", "grid"} =>
    /\ \A k \in 1..Len(detection.clusters) :
         detection.clusters[k].xCenter = Mean(detection.clusters[k].xs)
    /\ Len(detection.columns) = Cardinality(Supported)
    /\ \A k \in Supported :
         \E c \in 1..Len(detection.columns) :
           detection.columns[c] = detection.clusters[k].xCenter
    /\ \A c \in 2..Len(detection.columns) :
         QLe(detection.columns[c - 1], detection.columns[c])

\* the places in row r of the blocks whose horizontal centre is within
\* columnTolerance of column c (r and c counted from 1)
Candidates(r, c) ==
  { k \in 1..Len(detection.rows[r].blocks) :
      Within(detection.rows[r].blocks[k].xCenter, detection.columns[c],
             detection.config.columnTolerance) }

CellInside(cell, table) ==
  IF cell.blockId # "null"
  THEN /\ table.bbox.x1 <= cell.bbox.x1
       /\ table.bbox.y1 <= cell.bbox.y1
       /\ cell.bbox.x2 <= table.bbox.x2
       /\ cell.bbox.y2 <= table.bbox.y2
  ELSE /\ QLe(Num(table.bbox.x1), cell.bbox.x1)
       /\ table.bbox.y1 <= cell.bbox.y1
       /\ QLe(cell.bbox.x2, Num(table.bbox.x2))
       /\ cell.bbox.y2 <= table.bbox.y2

CellsOf(table) == (1..table.rowCount) \X (1..table.columnCount)

CellAt(table, rc) == table.grid[rc[1]][rc[2]]

\* C38: the bbox of a detected table encompasses all of its cells: the bbox
\* of every cell of the grid, bound or empty, lies inside the table's bbox.
C38_TableBBoxHoldsAllCells ==
  detection.stage = "returned" =>
    \A t \in 1..Len(detection.tables) :
      \A rc \in CellsOf(detection.tables[t]) :
        CellInside(CellAt(detection.tables[t], rc), detection.tables[t])

\* the cells of the table that are bound to the block with this id
CellsBoundTo(table, id) ==
  { rc \in CellsOf(table) : CellAt(table, rc).blockId = id }

BlockIdsOf(table) == { table.blockIds[i] : i \in 1..Len(table.blockIds) }

BoundIdsOf(table) ==
  { CellAt(table, rc).blockId : rc \in CellsOf(table) } \ {"null"}

\* C39 (as claimed): in a detected table every source block is bound to at
\* most one cell of the grid, and the blocks bound to cells are exactly the
\* blocks listed in blockIds.
C39_BlockIdsAreTheBoundBlocks ==
  detection.stage = "returned" =>
    \A t \in 1..Len(detection.tables) :
      LET table == detection.tables[t]
      IN /\ \A i \in 1..Len(detection.blocks) :
              Cardinality(CellsBoundTo(table, detection.blocks[i].id)) <= 1
         /\ BoundIdsOf(table) = BlockIdsOf(table)

\* ------------------------------------------------------------------------
\* Properties of the qwen-markdown plugin (checked under SpecQwen)
\* ------------------------------------------------------------------------
\* the promptStyle that extract-markdown is to send for an entity
StyleFor(type) == IF type = "table" THEN "table" ELSE "page"

\* C40: the extract-markdown command chooses its request by the type of
\* the entity: promptStyle 'table' for a table, 'page' for a figure or an
\* ocr-block, and the entity's own type as entityType; without an imageUrl
\* it returns the failure 'No image URL provided' and does not call the
\* API; and whatever the API does, the handler does not throw.
C40_ExtractMarkdownRequestByEntityType ==
  transform.stage \in {"fetch", "returned"}
      /\ transform.command.id = "extract-markdown" =>
    /\ \A i \in 1..Len(transform.fetches) :
         /\ transform.ctx.entity.type \in {"table", "figure", "ocr-block"} =>
              transform.fetches[i].body.promptStyle =
                StyleFor(transform.ctx.entity.type)
         /\ transform.fetches[i].body.entityType = transform.ctx.entity.type
    /\ transform.ctx.imageUrl \in {"undefined", ""} =>
         /\ transform.fetches = <<>>
         /\ transform.result =
              [settled |-> "fulfilled",
               value |-> [success |-> FALSE,
                          error |-> "No image URL provided"]]
    /\ transform.result.settled # "rejected"

====
